---- MODULE Spec2Model ----
(***************************************************************************)
(* A model of launcher_core/mrpack.py: the .mrpack modpack installer       *)
(* (file filter, path guard, download loop, override extraction and the   *)
(* dependency dispatch of install_mrpack).                                *)
(*                                                                         *)
(* A path is the sequence of the segments of its string split at "/":   *)
(* "d/a" is <<"d", "a">> and the absolute "/out/x" is <<"", "out", "x">>. *)
(* A normalised absolute path is the sequence of its segments from the    *)
(* root, without the leading empty segment.                               *)
(***************************************************************************)
EXTENDS Integers, Sequences, FiniteSets, TLC

\* ---------------------------------------------------------------- bounds
MaxFiles == 2
MaxEntries == 2

\* ------------------------------------------------------------ sequences
Range(s) == { s[i] : i \in 1..Len(s) }

IsPrefix(p, q) == Len(p) <= Len(q) /\ \A i \in 1..Len(p) : p[i] = q[i]

\* --------------------------------------------------------------- paths
\* The file system the install runs in: two directories the caller can name
\* and, inside each, a symbolic link "lnk" that leaves it and a symbolic link
\* "in" that stays inside it.
McDir == <<"mc">>
PackDir == <<"pk">>

Symlinks ==
    { [from |-> <<"mc", "lnk">>, to |-> <<"out">>],
      [from |-> <<"pk", "lnk">>, to |-> <<"out">>],
      [from |-> <<"mc", "in">>,  to |-> <<"mc", "d">>],
      [from |-> <<"pk", "in">>,  to |-> <<"pk", "d">>] }

IsAbs(p) == Len(p) > 0 /\ p[1] = ""

\* os.path.join(base, p): an absolute p replaces the base.
Join(base, p) == IF IsAbs(p) THEN p ELSE base \o p

\* os.path.abspath of an absolute path: "." and empty segments dropped and
\* ".." collapsed lexically (no symbolic link is looked at).
RECURSIVE NormFrom(_, _)
NormFrom(acc, rest) ==
    IF rest = <<>> THEN acc
    ELSE LET s == Head(rest) IN
         IF s = "." \/ s = "" THEN NormFrom(acc, Tail(rest))
         ELSE IF s = ".."
              THEN NormFrom(IF acc = <<>> THEN acc ELSE SubSeq(acc, 1, Len(acc) - 1),
                            Tail(rest))
              ELSE NormFrom(Append(acc, s), Tail(rest))

AbsPath(p) == NormFrom(<<>>, p)

FullPath(base, p) == AbsPath(Join(base, p))

\* What the operating system opens for an absolute, normalised path: symbolic
\* links are followed segment by segment.
RECURSIVE RealFrom(_, _)
RealFrom(acc, rest) ==
    IF rest = <<>> THEN acc
    ELSE LET nxt == Append(acc, Head(rest))
             hit == { l \in Symlinks : l.from = nxt }
         IN  IF hit = {} THEN RealFrom(nxt, Tail(rest))
             ELSE RealFrom((CHOOSE l \in hit : TRUE).to, Tail(rest))

RealPath(p) == RealFrom(<<>>, p)

DirName(p) == IF p = <<>> THEN p ELSE SubSeq(p, 1, Len(p) - 1)

\* A guard that compares the paths as written, following no symbolic link.
GuardRejects_Lexical(base, path) == ~IsPrefix(AbsPath(base), AbsPath(path))

\* check_path_inside_minecraft_directory(base, path): TRUE when it raises.
GuardRejects(base, path) == ~IsPrefix(RealPath(AbsPath(base)), RealPath(AbsPath(path)))

\* ---------------------------------------------------------- manifest files
NoKey == "<missing>"

\* A manifest file: n is its position in the manifest and stands for its
\* downloads list and declared hash; hasEnv says whether the "env" key is
\* there, client is env["client"] (NoKey when that key is not there).
MrpackFile(n, path, hasEnv, client) ==
    [n |-> n, path |-> path, hasEnv |-> hasEnv, client |-> client]

\* _filter_mrpack_files: the loop over file_list.  A file with an env block
\* and no client key makes file["env"]["client"] raise KeyError.
RECURSIVE FilterLoop(_, _, _)
FilterLoop(filtered_list, rest, optionalFiles) ==
    IF rest = <<>> THEN [raised |-> FALSE, list |-> filtered_list]
    ELSE LET file == Head(rest) IN
         IF ~file.hasEnv
         THEN FilterLoop(Append(filtered_list, file), Tail(rest), optionalFiles)
         ELSE IF file.client = NoKey
         THEN [raised |-> TRUE, list |-> filtered_list]
         ELSE LET l1 == IF file.client = "required"
                        THEN Append(filtered_list, file) ELSE filtered_list
                  l2 == IF file.client = "optional" /\ file.path \in optionalFiles
                        THEN Append(l1, file) ELSE l1
              IN  FilterLoop(l2, Tail(rest), optionalFiles)

\* A filter that takes every optional file, selected or not.
FilterMrpackFiles_AllOptional(file_list, optionalFiles) ==
    FilterLoop(<<>>, file_list, { f.path : f \in Range(file_list) })

FilterMrpackFiles(file_list, optionalFiles) == FilterLoop(<<>>, file_list, optionalFiles)

\* -------------------------------------------------------------- the archive
IndexName == <<"modrinth.index.json">>

\* An archive entry: its name (split at "/") and its bytes; file_size is 0
\* exactly when data is 0.
ZipEntry(name, data) == [name |-> name, data |-> data]

\* zip_name.startswith(prefix + "/")
StartsWith(name, prefix) == Len(name) >= 2 /\ name[1] = prefix

\* zip_name[len("client-overrides/"):] or zip_name[len("overrides/"):]: either
\* slice drops the first segment and its slash.
StripPrefix(name) == Tail(name)

\* A test that knows the "overrides/" prefix only.
NotAnOverride_OnePrefix(entry) ==
    ~StartsWith(entry.name, "overrides") \/ entry.data = 0

\* The test of lines 161-164: TRUE when the entry is skipped.
NotAnOverride(entry) ==
    (~StartsWith(entry.name, "overrides") /\ ~StartsWith(entry.name, "client-overrides"))
    \/ entry.data = 0

\* --------------------------------------------------------------- the bytes
\* Bytes are numbers: n is what the manifest's n-th file is meant to hold,
\* 10 + n what a faulty server sends for it, 20 + n what its second URL holds.
Sha1(bytes) == <<"sha1", bytes>>

Intended(n) == n

Downloads(file) == << [n |-> file.n, k |-> 0], [n |-> file.n, k |-> 1] >>

\* file["downloads"][-1]
PrimaryUrl_Last(file) == Downloads(file)[Len(Downloads(file))]

\* file["downloads"][0]
PrimaryUrl(file) == Downloads(file)[1]

DeclaredSha1(file) == Sha1(Intended(file.n))

None == <<"<None>">>

AllSlots == {"setStatus", "setProgress", "setMax"}

\* ------------------------------------------------------------------ state
VARIABLES
    inp,            \* the arguments of the call and what the collaborators answer
    pc,             \* where install_mrpack is
    file_list,      \* the filtered files
    count,          \* files downloaded so far
    zi,             \* archive entries looked at so far
    forge_version,  \* the Forge candidate selected
    disk,           \* the files on disk: real path -> bytes
    log,            \* what the call has done, in order
    err,            \* the exception that ended the call
    result,         \* what get_mrpack_information or get_mrpack_launch_version returned
    prev,           \* what an earlier call of install_mrpack left behind
    self            \* the object the methods are called on, None for the functions

vars == <<inp, pc, file_list, count, zi, forge_version, disk, log, err, result, prev, self>>

Ev(op, n, path, data) == [op |-> op, n |-> n, path |-> path, data |-> data]

\* Lines 128-129: callback is None
NoCallback == {"<None>"}

\* Lines 128-129: the callback install works with.
Callback == IF inp.callback = NoCallback THEN {} ELSE inp.callback

\* callback.get(slot, empty)(...)
Call(slot, ev) == IF slot \in Callback THEN <<ev>> ELSE <<>>

\* No earlier call.
NoCall == [pc |-> "none"]

\* ------------------------------------------------------------ dependencies
Loaders == {"forge", "fabric-loader", "quilt-loader"}

\* index["dependencies"][key]
DepVersion(key) ==
    CASE key = "minecraft"     -> inp.minecraft
      [] key = "forge"         -> "47.2.0"
      [] key = "fabric-loader" -> "0.15.0"
      [] key = "quilt-loader"  -> "0.20.0"

\* The two version strings tried against the Forge maven, as their parts.
ForgeCandidates ==
    << <<DepVersion("minecraft"), "-", DepVersion("forge")>>,
       <<DepVersion("minecraft"), "-", DepVersion("forge"), "-", DepVersion("minecraft")>> >>

\* An install that resolves every path against the Minecraft directory.
ModpackDirectory_Minecraft == AbsPath(McDir)

\* Lines 123-126.
ModpackDirectory ==
    IF inp.modpack_directory = None THEN AbsPath(McDir)
    ELSE AbsPath(inp.modpack_directory)

MinecraftDirectory == AbsPath(McDir)

Namelist == <<ZipEntry(IndexName, 99)>> \o inp.zip

\* What the server sends for a URL.
Served(url) ==
    IF url.k = 0
    THEN IF inp.fault.kind = "mismatch" /\ inp.fault.n = url.n
         THEN 10 + url.n ELSE Intended(url.n)
    ELSE 20 + url.n

\* A write that opens the file for appending: open(full_path, "ab").
Write_Append(d, path, bytes) ==
    IF RealPath(path) \in DOMAIN d
    THEN (RealPath(path) :> (d[RealPath(path)] * 100 + bytes)) @@ d
    ELSE (RealPath(path) :> bytes) @@ d

\* A write that leaves a file that exists alone: open(full_path, "xb").
Write_KeepFirst(d, path, bytes) ==
    IF RealPath(path) \in DOMAIN d THEN d ELSE (RealPath(path) :> bytes) @@ d

\* open(full_path, "wb") and write: the file holds what was written last.
Write(d, path, bytes) == (RealPath(path) :> bytes) @@ d

\* download_file(url, path, sha1): fetch, write, then compare the SHA-1 of
\* what was received.
DownloadFile(url, path, sha1, d) ==
    LET bytes == Served(url)
        fetched == <<Ev("fetch", url.n, <<>>, url.k)>>
    IN  IF inp.fault.kind = "neterr" /\ inp.fault.n = url.n
        THEN [log |-> fetched, disk |-> d, err |-> "DownloadFailed"]
        ELSE [log |-> fetched \o
                      << Ev("dl_mkdir", url.n, RealPath(DirName(path)), 0),
                         Ev("dl_write", url.n, RealPath(path), bytes) >>,
              disk |-> Write(d, path, bytes),
              err |-> IF Sha1(bytes) = sha1 THEN "none" ELSE "InvalidChecksum"]

\* ---------------------------------------------------------------- actions
Raise(e, events) ==
    /\ err' = e
    /\ pc' = "raised"
    /\ log' = log \o events

\* A reader that takes an archive without an index for an empty pack.
ArchiveError_Tolerant ==
    CASE inp.archive = "missing" -> "FileNotFoundError"
      [] inp.archive = "badjson" -> "JSONDecodeError"
      [] OTHER                   -> "none"

\* zipfile.ZipFile(path, "r"), zf.open("modrinth.index.json", "r") and
\* json.loads(index_data): what they raise.
ArchiveError ==
    CASE inp.archive = "missing" -> "FileNotFoundError"
      [] inp.archive = "noindex" -> "KeyError"
      [] inp.archive = "badjson" -> "JSONDecodeError"
      [] OTHER                   -> "none"

\* An install that subscripts the callback: callback["setMax"](...).
Open_Subscript ==
    /\ pc = "call"
    /\ LET st == Call("setStatus", Ev("setStatus", 0, <<"Download mrpack files">>, 0))
           f  == FilterMrpackFiles(inp.files, inp.optionalFiles)
       IN  IF ArchiveError # "none"
           THEN /\ Raise(ArchiveError, <<>>)
                /\ UNCHANGED <<file_list, count>>
           ELSE IF f.raised \/ "setMax" \notin Callback
           THEN /\ Raise("KeyError", st)
                /\ UNCHANGED <<file_list, count>>
           ELSE /\ file_list' = f.list
                /\ count' = 0
                /\ log' = log \o st \o Call("setMax", Ev("setMax", Len(f.list), <<>>, 0))
                /\ pc' = "download"
                /\ err' = err
    /\ UNCHANGED <<self, inp, result, prev, zi, forge_version, disk>>

\* Lines 134-142: the index is read, the status set, the files filtered and
\* the maximum set.
Open ==
    /\ pc = "call"
    /\ LET st == Call("setStatus", Ev("setStatus", 0, <<"Download mrpack files">>, 0))
           f  == FilterMrpackFiles(inp.files, inp.optionalFiles)
       IN  IF ArchiveError # "none"
           THEN /\ Raise(ArchiveError, <<>>)
                /\ UNCHANGED <<file_list, count>>
           ELSE IF f.raised
           THEN /\ Raise("KeyError", st)
                /\ UNCHANGED <<file_list, count>>
           ELSE /\ file_list' = f.list
                /\ count' = 0
                /\ log' = log \o st \o Call("setMax", Ev("setMax", Len(f.list), <<>>, 0))
                /\ pc' = "download"
                /\ err' = err
    /\ UNCHANGED <<self, inp, result, prev, zi, forge_version, disk>>

\* A download loop that checks the path after the download.
DownloadTurn_FetchFirst(file, d) ==
    LET full_path == FullPath(ModpackDirectory, file.path)
        r == DownloadFile(PrimaryUrl(file), full_path, DeclaredSha1(file), d)
        bad == GuardRejects(ModpackDirectory, full_path)
    IN  [log |-> r.log \o <<Ev("dl_guard", file.n, full_path, IF bad THEN 0 ELSE 1)>>,
         disk |-> r.disk,
         err |-> IF r.err # "none" THEN r.err
                 ELSE IF bad THEN "FileOutsideMinecraftDirectory" ELSE "none"]

\* A download loop that catches what download_file raises and goes on.
DownloadTurn_Swallow(file, d) ==
    LET full_path == FullPath(ModpackDirectory, file.path) IN
    IF GuardRejects(ModpackDirectory, full_path)
    THEN [log |-> <<Ev("dl_guard", file.n, full_path, 0)>>, disk |-> d,
          err |-> "FileOutsideMinecraftDirectory"]
    ELSE LET r == DownloadFile(PrimaryUrl(file), full_path, DeclaredSha1(file), d)
         IN  [log |-> <<Ev("dl_guard", file.n, full_path, 1)>> \o r.log,
              disk |-> r.disk, err |-> "none"]

\* Lines 144-153: the guard and the download of one file, from disk d.
DownloadTurn(file, d) ==
    LET full_path == FullPath(ModpackDirectory, file.path) IN
    IF GuardRejects(ModpackDirectory, full_path)
    THEN [log |-> <<Ev("dl_guard", file.n, full_path, 0)>>, disk |-> d,
          err |-> "FileOutsideMinecraftDirectory"]
    ELSE LET r == DownloadFile(PrimaryUrl(file), full_path, DeclaredSha1(file), d)
         IN  [log |-> <<Ev("dl_guard", file.n, full_path, 1)>> \o r.log,
              disk |-> r.disk, err |-> r.err]

\* A progress report that passes the loop index: setProgress(count).
ProgressAfter_Index(done) == done

\* Line 155: count + 1, with done files downloaded before this one.
ProgressAfter(done) == done + 1

\* Lines 143-155: one turn of the download loop.
DownloadStep ==
    /\ pc = "download"
    /\ count < Len(file_list)
    /\ LET r == DownloadTurn(file_list[count + 1], disk) IN
       /\ disk' = r.disk
       /\ IF r.err # "none"
          THEN /\ Raise(r.err, r.log)
               /\ count' = count
          ELSE /\ log' = log \o r.log \o
                         Call("setProgress", Ev("setProgress", ProgressAfter(count), <<>>, 0))
               /\ count' = count + 1
               /\ UNCHANGED <<pc, err>>
    /\ UNCHANGED <<self, inp, result, prev, file_list, zi, forge_version>>

\* An install that goes from the downloads to the overrides without a status.
BeginExtract_NoStatus ==
    /\ pc = "download"
    /\ count = Len(file_list)
    /\ log' = log
    /\ zi' = 0
    /\ pc' = "overrides"
    /\ UNCHANGED <<self, inp, result, prev, file_list, count, forge_version, disk, err>>

\* Line 158: the download loop is over.
BeginExtract ==
    /\ pc = "download"
    /\ count = Len(file_list)
    /\ log' = log \o Call("setStatus", Ev("setStatus", 0, <<"Extract overrides">>, 0))
    /\ zi' = 0
    /\ pc' = "overrides"
    /\ UNCHANGED <<self, inp, result, prev, file_list, count, forge_version, disk, err>>

\* An extraction that writes without asking the guard.
ExtractTurn_NoGuard(entry, i, d) ==
    LET file_name == StripPrefix(entry.name)
        full_path == FullPath(ModpackDirectory, file_name)
    IN  IF NotAnOverride(entry)
        THEN [log |-> <<>>, disk |-> d, err |-> "none"]
        ELSE [log |-> Call("setStatus", Ev("setStatus", i, <<"Extract ">> \o entry.name, 0))
                      \o << Ev("ov_mkdir", i, RealPath(DirName(full_path)), 0),
                            Ev("ov_write", i, RealPath(full_path), entry.data) >>,
              disk |-> Write(d, full_path, entry.data),
              err |-> "none"]

\* Lines 161-188: what the loop does with the i-th entry, from disk d.
ExtractTurn(entry, i, d) ==
    LET file_name == StripPrefix(entry.name)
        full_path == FullPath(ModpackDirectory, file_name)
    IN  IF NotAnOverride(entry)
        THEN [log |-> <<>>, disk |-> d, err |-> "none"]
        ELSE IF GuardRejects(ModpackDirectory, full_path)
        THEN [log |-> <<Ev("ov_guard", i, full_path, 0)>>, disk |-> d,
              err |-> "FileOutsideMinecraftDirectory"]
        ELSE [log |-> <<Ev("ov_guard", i, full_path, 1)>>
                      \o Call("setStatus", Ev("setStatus", i, <<"Extract ">> \o entry.name, 0))
                      \o << Ev("ov_mkdir", i, RealPath(DirName(full_path)), 0),
                            Ev("ov_write", i, RealPath(full_path), entry.data) >>,
              disk |-> Write(d, full_path, entry.data),
              err |-> "none"]

\* Lines 159-188: one turn of the loop over zf.namelist().
ExtractStep ==
    /\ pc = "overrides"
    /\ zi < Len(Namelist)
    /\ LET r == ExtractTurn(Namelist[zi + 1], zi + 1, disk) IN
       /\ disk' = r.disk
       /\ IF r.err # "none"
          THEN /\ Raise(r.err, r.log)
               /\ zi' = zi
          ELSE /\ log' = log \o r.log
               /\ zi' = zi + 1
               /\ UNCHANGED <<pc, err>>
    /\ UNCHANGED <<self, inp, result, prev, file_list, count, forge_version>>

\* An install that never looks at skipDependenciesInstall.
SkipRequested_Never == FALSE

\* Line 190: mrpack_install_options.get("skipDependenciesInstall")
SkipRequested == inp.skipDependenciesInstall

\* Lines 190-191: skipDependenciesInstall.
SkipDependencies ==
    /\ pc = "overrides"
    /\ zi = Len(Namelist)
    /\ SkipRequested
    /\ pc' = "returned"
    /\ UNCHANGED <<self, inp, result, prev, file_list, count, zi, forge_version, disk, log, err>>

\* A dispatch that goes to the loaders without installing Minecraft.
InstallMinecraft_Omitted ==
    /\ pc = "overrides"
    /\ zi = Len(Namelist)
    /\ ~SkipRequested
    /\ pc' = "forge"
    /\ UNCHANGED <<self, inp, result, prev, file_list, count, zi, forge_version, disk, log, err>>

\* Whether the delegated installer op raises.
InstallerFails(op) == inp.fault.kind = op

\* Lines 193-199: the Minecraft version is installed.
InstallMinecraft ==
    /\ pc = "overrides"
    /\ zi = Len(Namelist)
    /\ ~SkipRequested
    /\ LET events == Call("setStatus", Ev("setStatus", 0,
                                         <<"Installing Minecraft ", DepVersion("minecraft")>>, 0))
                     \o <<Ev("install_minecraft_version", 0, <<DepVersion("minecraft")>>, 0)>>
       IN  IF InstallerFails("install_minecraft_version")
           THEN Raise("InstallerError", events)
           ELSE /\ log' = log \o events
                /\ pc' = "forge"
                /\ err' = err
    /\ UNCHANGED <<self, inp, result, prev, file_list, count, zi, forge_version, disk>>

\* A probe loop without the break: both candidates are asked and the last
\* one that answers 200 is taken.
RECURSIVE ProbeLoop_NoBreak(_, _)
ProbeLoop_NoBreak(i, events) ==
    IF i = Len(ForgeCandidates)
    THEN [found |-> \E k \in 1..Len(ForgeCandidates) : inp.head[k] = 200,
          version |-> IF inp.head[2] = 200 THEN ForgeCandidates[2] ELSE ForgeCandidates[1],
          log |-> events]
    ELSE ProbeLoop_NoBreak(i + 1, Append(events, Ev("head", i + 1, ForgeCandidates[i + 1],
                                                    inp.head[i + 1])))

\* Lines 207-223: the for/else over the two candidates; i candidates have
\* been tried.
RECURSIVE ProbeLoop(_, _)
ProbeLoop(i, events) ==
    IF i = Len(ForgeCandidates)
    THEN [found |-> FALSE, version |-> <<>>, log |-> events]
    ELSE LET current_forge_version == ForgeCandidates[i + 1]
             head == Ev("head", i + 1, current_forge_version, inp.head[i + 1])
         IN  IF inp.head[i + 1] = 200
             THEN [found |-> TRUE, version |-> current_forge_version,
                   log |-> Append(events, head)]
             ELSE ProbeLoop(i + 1, Append(events, head))

\* A Forge block that goes on to the next loader when no candidate resolves.
ForgeStep_Continue ==
    /\ pc = "forge"
    /\ IF "forge" \in inp.dependencies
       THEN LET r == ProbeLoop(0, <<>>)
                events == Call("setStatus", Ev("setStatus", 0,
                                               <<"Installing Forge ">> \o r.version, 0))
                          \o <<Ev("install_forge_version", 0, r.version, 0)>>
            IN  IF ~r.found
                THEN /\ log' = log \o r.log
                     /\ pc' = "fabric"
                     /\ UNCHANGED <<forge_version, err>>
                ELSE /\ forge_version' = r.version
                     /\ IF InstallerFails("install_forge_version")
                        THEN Raise("InstallerError", r.log \o events)
                        ELSE /\ log' = log \o r.log \o events
                             /\ pc' = "fabric"
                             /\ err' = err
       ELSE /\ pc' = "fabric"
            /\ UNCHANGED <<forge_version, log, err>>
    /\ UNCHANGED <<self, inp, result, prev, file_list, count, zi, disk>>

\* Lines 201-228.
ForgeStep ==
    /\ pc = "forge"
    /\ IF "forge" \in inp.dependencies
       THEN LET r == ProbeLoop(0, <<>>)
                events == Call("setStatus", Ev("setStatus", 0,
                                               <<"Installing Forge ">> \o r.version, 0))
                          \o <<Ev("install_forge_version", 0, r.version, 0)>>
            IN  IF ~r.found
                THEN /\ Raise("VersionNotFound", r.log)
                     /\ UNCHANGED forge_version
                ELSE /\ forge_version' = r.version
                     /\ IF InstallerFails("install_forge_version")
                        THEN Raise("InstallerError", r.log \o events)
                        ELSE /\ log' = log \o r.log \o events
                             /\ pc' = "fabric"
                             /\ err' = err
       ELSE /\ pc' = "fabric"
            /\ UNCHANGED <<forge_version, log, err>>
    /\ UNCHANGED <<self, inp, result, prev, file_list, count, zi, disk>>

\* A Fabric block that runs only when no Forge was installed.
FabricStep_Elif ==
    /\ pc = "fabric"
    /\ LET events == Call("setStatus", Ev("setStatus", 0,
                            <<"Installing Fabric ", DepVersion("fabric-loader"),
                              " for Minecraft ", DepVersion("minecraft")>>, 0))
                     \o <<Ev("install_fabric", 0,
                             <<DepVersion("minecraft"), DepVersion("fabric-loader")>>, 0)>>
       IN  IF "fabric-loader" \in inp.dependencies /\ "forge" \notin inp.dependencies
           THEN IF InstallerFails("install_fabric")
                THEN Raise("InstallerError", events)
                ELSE /\ log' = log \o events
                     /\ pc' = "quilt"
                     /\ err' = err
           ELSE /\ pc' = "quilt"
                /\ UNCHANGED <<log, err>>
    /\ UNCHANGED <<self, inp, result, prev, file_list, count, zi, forge_version, disk>>

\* Lines 230-242.
FabricStep ==
    /\ pc = "fabric"
    /\ LET events == Call("setStatus", Ev("setStatus", 0,
                            <<"Installing Fabric ", DepVersion("fabric-loader"),
                              " for Minecraft ", DepVersion("minecraft")>>, 0))
                     \o <<Ev("install_fabric", 0,
                             <<DepVersion("minecraft"), DepVersion("fabric-loader")>>, 0)>>
       IN  IF "fabric-loader" \in inp.dependencies
           THEN IF InstallerFails("install_fabric")
                THEN Raise("InstallerError", events)
                ELSE /\ log' = log \o events
                     /\ pc' = "quilt"
                     /\ err' = err
           ELSE /\ pc' = "quilt"
                /\ UNCHANGED <<log, err>>
    /\ UNCHANGED <<self, inp, result, prev, file_list, count, zi, forge_version, disk>>

\* Lines 244-256, and the return that follows.
QuiltStep ==
    /\ pc = "quilt"
    /\ LET events == Call("setStatus", Ev("setStatus", 0,
                            <<"Installing Quilt ", DepVersion("quilt-loader"),
                              " for Minecraft ", DepVersion("minecraft")>>, 0))
                     \o <<Ev("install_quilt", 0,
                             <<DepVersion("minecraft"), DepVersion("quilt-loader")>>, 0)>>
       IN  IF "quilt-loader" \in inp.dependencies
           THEN IF InstallerFails("install_quilt")
                THEN Raise("InstallerError", events)
                ELSE /\ log' = log \o events
                     /\ pc' = "returned"
                     /\ err' = err
           ELSE /\ pc' = "returned"
                /\ UNCHANGED <<log, err>>
    /\ UNCHANGED <<self, inp, result, prev, file_list, count, zi, forge_version, disk>>

\* ------------------------------------------------------------- the inputs
Envs ==
    { <<FALSE, NoKey>>, <<TRUE, "required">>, <<TRUE, "optional">>,
      <<TRUE, "unsupported">>, <<TRUE, NoKey>> }

\* The manifests of up to n files whose paths are in paths.
Manifests(paths, n) ==
    UNION { { m \in [1..k -> { MrpackFile(i, p, e[1], e[2]) :
                               i \in 1..k, p \in paths, e \in Envs }] :
              \A i \in 1..k : m[i].n = i } : k \in 0..n }

NoFault == [kind |-> "none", n |-> 0]

AllPaths ==
    { <<"a">>, <<"d", "b">>, <<"d", "..", "a">>, <<"..", "x">>, <<"lnk", "x">>,
      <<"in", "b">>, <<"", "out", "x">>, <<"", "mc", "a">> }

Prefixes == {"overrides", "client-overrides", "mods"}

\* index["name"], index.get("summary"), index["versionId"], index["formatVersion"]
PackIndex(summary) ==
    [name |-> "Pack", summary |-> summary, versionId |-> "1.0.0", formatVersion |-> 1]

Input(files, optionalFiles, zip, mp, skip, mc, deps, head, fault, callback) ==
    [files |-> files, optionalFiles |-> optionalFiles, zip |-> zip,
     modpack_directory |-> mp, skipDependenciesInstall |-> skip,
     minecraft |-> mc, dependencies |-> deps, head |-> head, fault |-> fault,
     callback |-> callback, archive |-> "ok", index |-> PackIndex("a pack")]

No200 == <<404, 404>>

\* Calls that differ in the manifest and in what the server sends.
DownloadCalls ==
    { Input(files, opt, zip, mp, FALSE, "1.20.1", {"fabric-loader"}, No200, fault, AllSlots) :
        files \in Manifests({<<"a">>, <<"d", "..", "a">>, <<"..", "x">>}, MaxFiles),
        opt \in {{}, {<<"a">>}},
        zip \in {<<ZipEntry(<<"overrides", "d", "b">>, 31)>>},
        mp \in {None, PackDir},
        fault \in {NoFault} \cup { [kind |-> "mismatch", n |-> i] : i \in 1..MaxFiles }
                 \cup {[kind |-> "neterr", n |-> 1]} }

\* Calls that differ in the archive's entries.  The i-th entry is empty or
\* holds the bytes 30 + i; "overrides/d/" is a directory marker.
OverrideNames ==
    { <<pre>> \o p : pre \in Prefixes, p \in {<<"a">>, <<"d", "b">>, <<"..", "x">>} }

Archives(n) ==
    UNION { { [i \in 1..k |-> ZipEntry(names[i], IF i \in empty THEN 0 ELSE 30 + i)] :
                names \in [1..k -> OverrideNames], empty \in SUBSET (1..k) }
            \cup { [i \in 1..k |-> IF i = m THEN ZipEntry(<<"overrides", "d", "">>, 0)
                                             ELSE ZipEntry(names[i], 30 + i)] :
                     names \in [1..k -> OverrideNames], m \in 1..k }
          : k \in 0..n }

OverrideCalls ==
    { Input(files, {}, zip, mp, FALSE, "1.20.1", {}, No200, NoFault, AllSlots) :
        files \in {<<>>, <<MrpackFile(1, <<"a">>, FALSE, NoKey)>>},
        zip \in Archives(MaxEntries),
        mp \in {None, PackDir} }

\* Calls that differ in the paths of one file and one override.
PathCalls ==
    { Input(files, {}, zip, mp, TRUE, "1.20.1", {}, No200, NoFault, AllSlots) :
        files \in {<<>>} \cup { <<MrpackFile(1, p, FALSE, NoKey)>> : p \in AllPaths },
        zip \in {<<>>} \cup { <<ZipEntry(<<"overrides">> \o p, 31)>> : p \in AllPaths },
        mp \in {None, PackDir} }

\* Calls that differ in the dependencies and in what the Forge maven answers.
InstallerOps ==
    {"install_minecraft_version", "install_forge_version", "install_fabric", "install_quilt"}

DependencyCalls ==
    { Input(files, {}, zip, None, skip, mc, deps, head, fault, AllSlots) :
        files \in {<<>>, <<MrpackFile(1, <<"a">>, FALSE, NoKey)>>},
        zip \in {<<>>, <<ZipEntry(<<"overrides", "d", "b">>, 31)>>},
        skip \in BOOLEAN,
        mc \in {"1.20.1", "1.12.2"},
        deps \in SUBSET Loaders,
        head \in [1..2 -> {200, 404}],
        fault \in {NoFault} \cup { [kind |-> op, n |-> 0] : op \in InstallerOps } }

Calls == DownloadCalls \cup OverrideCalls \cup PathCalls \cup DependencyCalls

Init ==
    /\ inp \in Calls
    /\ pc = "call"
    /\ file_list = <<>>
    /\ count = 0
    /\ zi = 0
    /\ forge_version = <<>>
    /\ disk = <<>>
    /\ log = <<>>
    /\ err = "none"
    /\ result = None
    /\ prev = NoCall
    /\ self = None

Next ==
    \/ Open
    \/ DownloadStep
    \/ BeginExtract
    \/ ExtractStep
    \/ SkipDependencies
    \/ InstallMinecraft
    \/ ForgeStep
    \/ FabricStep
    \/ QuiltStep

Spec == Init /\ [][Next]_vars

\* ------------------------------------------------- the file filter alone
FilterCalls ==
    { Input(files, opt, <<>>, None, TRUE, "1.20.1", {}, No200, NoFault, AllSlots) :
        files \in Manifests({<<"a">>, <<"d", "b">>}, MaxFiles),
        opt \in SUBSET {<<"a">>, <<"d", "b">>} }

InitFilter ==
    /\ inp \in FilterCalls
    /\ pc = "call"
    /\ file_list = <<>>
    /\ count = 0
    /\ zi = 0
    /\ forge_version = <<>>
    /\ disk = <<>>
    /\ log = <<>>
    /\ err = "none"
    /\ result = None
    /\ prev = NoCall
    /\ self = None

\* _filter_mrpack_files(index["files"], mrpack_install_options) on its own.
ApplyFilter ==
    /\ pc = "call"
    /\ LET f == FilterMrpackFiles(inp.files, inp.optionalFiles) IN
       /\ file_list' = f.list
       /\ pc' = IF f.raised THEN "raised" ELSE "filtered"
       /\ err' = IF f.raised THEN "KeyError" ELSE "none"
    /\ UNCHANGED <<self, inp, result, prev, count, zi, forge_version, disk, log>>

NextFilter == ApplyFilter

SpecFilter == InitFilter /\ [][NextFilter]_vars

\* ------------------------------------------------- the two query functions
\* An information loop that lists every file that has an env block.
RECURSIVE OptionalLoop_AnyEnv(_, _, _)
OptionalLoop_AnyEnv(files, i, acc) ==
    IF i > Len(files) THEN [raised |-> FALSE, list |-> acc]
    ELSE IF ~files[i].hasEnv THEN OptionalLoop_AnyEnv(files, i + 1, acc)
    ELSE IF files[i].client = NoKey THEN [raised |-> TRUE, list |-> acc]
    ELSE OptionalLoop_AnyEnv(files, i + 1, Append(acc, files[i].path))

\* Lines 75-81: the loop that collects information["optionalFiles"].
RECURSIVE OptionalLoop(_, _, _)
OptionalLoop(files, i, acc) ==
    IF i > Len(files) THEN [raised |-> FALSE, list |-> acc]
    ELSE IF ~files[i].hasEnv THEN OptionalLoop(files, i + 1, acc)
    ELSE IF files[i].client = NoKey THEN [raised |-> TRUE, list |-> acc]
    ELSE IF files[i].client = "optional"
         THEN OptionalLoop(files, i + 1, Append(acc, files[i].path))
         ELSE OptionalLoop(files, i + 1, acc)

\* Lines 68-83: the information built from the index.
GetMrpackInformation ==
    LET o == OptionalLoop(inp.files, 1, <<>>) IN
    [raised |-> o.raised,
     value |-> [name |-> inp.index.name,
                summary |-> IF inp.index.summary = NoKey THEN "" ELSE inp.index.summary,
                versionId |-> inp.index.versionId,
                formatVersion |-> inp.index.formatVersion,
                minecraftVersion |-> DepVersion("minecraft"),
                optionalFiles |-> o.list]]

\* get_mrpack_information(path)
GetInformation ==
    /\ pc = "call"
    /\ IF ArchiveError # "none"
       THEN /\ Raise(ArchiveError, <<>>)
            /\ UNCHANGED result
       ELSE IF GetMrpackInformation.raised
       THEN /\ Raise("KeyError", <<>>)
            /\ UNCHANGED result
       ELSE /\ result' = GetMrpackInformation.value
            /\ pc' = "info"
            /\ UNCHANGED <<log, err>>
    /\ UNCHANGED <<self, inp, prev, file_list, count, zi, forge_version, disk>>

\* A resolver that looks for fabric-loader before forge.
GetMrpackLaunchVersion_FabricFirst ==
    IF "fabric-loader" \in inp.dependencies
    THEN <<"fabric-loader-", DepVersion("fabric-loader"), "-", DepVersion("minecraft")>>
    ELSE IF "forge" \in inp.dependencies
    THEN <<DepVersion("minecraft"), "-forge-", DepVersion("forge")>>
    ELSE IF "quilt-loader" \in inp.dependencies
    THEN <<"quilt-loader-", DepVersion("quilt-loader"), "-", DepVersion("minecraft")>>
    ELSE <<DepVersion("minecraft")>>

\* Lines 278-298: the launch version, as the parts concatenated.
GetMrpackLaunchVersion ==
    IF "forge" \in inp.dependencies
    THEN <<DepVersion("minecraft"), "-forge-", DepVersion("forge")>>
    ELSE IF "fabric-loader" \in inp.dependencies
    THEN <<"fabric-loader-", DepVersion("fabric-loader"), "-", DepVersion("minecraft")>>
    ELSE IF "quilt-loader" \in inp.dependencies
    THEN <<"quilt-loader-", DepVersion("quilt-loader"), "-", DepVersion("minecraft")>>
    ELSE <<DepVersion("minecraft")>>

\* get_mrpack_launch_version(path)
GetLaunchVersion ==
    /\ pc = "call"
    /\ IF ArchiveError # "none"
       THEN /\ Raise(ArchiveError, <<>>)
            /\ UNCHANGED result
       ELSE /\ result' = GetMrpackLaunchVersion
            /\ pc' = "version"
            /\ UNCHANGED <<log, err>>
    /\ UNCHANGED <<self, inp, prev, file_list, count, zi, forge_version, disk>>

\* Packs that differ in their files and in whether they have a summary.
InformationCalls ==
    { [Input(files, opt, <<>>, None, TRUE, "1.20.1", {}, No200, NoFault, AllSlots)
          EXCEPT !.index = PackIndex(summary)] :
        files \in Manifests({<<"a">>, <<"d", "b">>}, MaxFiles),
        opt \in {{}},
        summary \in {"a pack", NoKey} }

\* Packs that differ in their dependencies.
VersionCalls ==
    { Input(<<>>, {}, <<>>, None, skip, mc, deps, head, NoFault, AllSlots) :
        skip \in BOOLEAN,
        mc \in {"1.20.1", "1.12.2"},
        deps \in SUBSET Loaders,
        head \in {<<200, 200>>, No200} }

\* Archive paths that do not exist and archives without a readable index.
ArchiveCalls ==
    { [Input(files, {}, zip, None, FALSE, "1.20.1", {"fabric-loader"}, No200, NoFault, cb)
          EXCEPT !.archive = a] :
        files \in {<<>>, <<MrpackFile(1, <<"a">>, FALSE, NoKey)>>},
        zip \in {<<>>, <<ZipEntry(<<"overrides", "d", "b">>, 31)>>},
        cb \in {AllSlots, {}},
        a \in {"ok", "missing", "noindex", "badjson"} }

InitApi ==
    /\ inp \in InformationCalls \cup VersionCalls \cup ArchiveCalls
    /\ pc = "call"
    /\ file_list = <<>>
    /\ count = 0
    /\ zi = 0
    /\ forge_version = <<>>
    /\ disk = <<>>
    /\ log = <<>>
    /\ err = "none"
    /\ result = None
    /\ prev = NoCall
    /\ self = None

NextApi ==
    \/ Next
    \/ GetInformation
    \/ GetLaunchVersion

SpecApi == InitApi /\ [][NextApi]_vars

\* ------------------------------------------------- a call and a second one
\* The downloads, file writes and installer invocations of a log.
Effects(l) == SelectSeq(l, LAMBDA e : e.op \notin AllSlots)

\* What a call that has ended leaves behind.
Outcome == [pc |-> pc, err |-> err, disk |-> disk, log |-> Effects(log)]

\* Calls that differ in the callback they pass.
SlotCalls ==
    { Input(files, {}, zip, None, skip, "1.20.1", deps, head, fault, cb) :
        files \in {<<>>, <<MrpackFile(1, <<"a">>, FALSE, NoKey)>>,
                   <<MrpackFile(1, <<"a">>, FALSE, NoKey),
                     MrpackFile(2, <<"..", "x">>, FALSE, NoKey)>>},
        zip \in {<<>>, <<ZipEntry(<<"overrides", "d", "b">>, 31)>>},
        skip \in BOOLEAN,
        deps \in {{}, Loaders},
        head \in {<<404, 200>>, No200},
        fault \in {NoFault, [kind |-> "mismatch", n |-> 1],
                   [kind |-> "install_quilt", n |-> 0]},
        cb \in (SUBSET AllSlots) \cup {NoCallback} }

InitSlots ==
    /\ inp \in SlotCalls
    /\ pc = "call"
    /\ file_list = <<>>
    /\ count = 0
    /\ zi = 0
    /\ forge_version = <<>>
    /\ disk = <<>>
    /\ log = <<>>
    /\ err = "none"
    /\ result = None
    /\ prev = NoCall
    /\ self = None

\* The caller calls install_mrpack again on an empty directory, this time
\* with a callback that has all three slots.
CallWithAllSlots ==
    /\ pc \in {"returned", "raised"}
    /\ prev = NoCall
    /\ prev' = Outcome
    /\ inp' = [inp EXCEPT !.callback = AllSlots]
    /\ pc' = "call"
    /\ file_list' = <<>>
    /\ count' = 0
    /\ zi' = 0
    /\ forge_version' = <<>>
    /\ disk' = <<>>
    /\ log' = <<>>
    /\ err' = "none"
    /\ UNCHANGED <<self, result>>

NextSlots ==
    \/ Next
    \/ CallWithAllSlots

SpecSlots == InitSlots /\ [][NextSlots]_vars

\* Calls whose files and overrides land on the same paths or fail midway.
TwiceCalls ==
    { Input(files, {}, zip, mp, skip, "1.20.1", deps, <<200, 200>>, fault, AllSlots) :
        files \in {<<>>, <<MrpackFile(1, <<"a">>, FALSE, NoKey)>>,
                   <<MrpackFile(1, <<"a">>, FALSE, NoKey),
                     MrpackFile(2, <<"d", "..", "a">>, FALSE, NoKey)>>,
                   <<MrpackFile(1, <<"d", "b">>, FALSE, NoKey),
                     MrpackFile(2, <<"..", "x">>, FALSE, NoKey)>>},
        zip \in {<<>>, <<ZipEntry(<<"overrides", "a">>, 31)>>,
                 <<ZipEntry(<<"overrides", "a">>, 31),
                   ZipEntry(<<"client-overrides", "a">>, 32)>>,
                 <<ZipEntry(<<"overrides", "d", "b">>, 31),
                   ZipEntry(<<"overrides", "..", "x">>, 32)>>},
        mp \in {None, PackDir},
        skip \in BOOLEAN,
        deps \in {{}, Loaders},
        fault \in {NoFault, [kind |-> "mismatch", n |-> 1],
                   [kind |-> "mismatch", n |-> 2], [kind |-> "neterr", n |-> 2]} }

InitTwice ==
    /\ inp \in TwiceCalls
    /\ pc = "call"
    /\ file_list = <<>>
    /\ count = 0
    /\ zi = 0
    /\ forge_version = <<>>
    /\ disk = <<>>
    /\ log = <<>>
    /\ err = "none"
    /\ result = None
    /\ prev = NoCall
    /\ self = None

\* The caller calls install_mrpack again with the same arguments, on the
\* directory the first call left.
CallAgain ==
    /\ pc \in {"returned", "raised"}
    /\ prev = NoCall
    /\ prev' = Outcome
    /\ pc' = "call"
    /\ file_list' = <<>>
    /\ count' = 0
    /\ zi' = 0
    /\ forge_version' = <<>>
    /\ log' = <<>>
    /\ err' = "none"
    /\ UNCHANGED <<self, inp, disk, result>>

NextTwice ==
    \/ Next
    \/ CallAgain

SpecTwice == InitTwice /\ [][NextTwice]_vars

\* ------------------------------------- the profiles of CompleteLauncherConfig
\* CustomClass.py: game_profiles is a dict (kept here in insertion order, one
\* entry per key), active_profile_id an Optional[str], last_modified a time.
MaxModified == 3

\* The variables of install_mrpack, which no method of an object touches.
install_vars == <<inp, file_list, count, zi, forge_version, disk, prev>>

NoInstall ==
    /\ inp = None
    /\ file_list = <<>>
    /\ count = 0
    /\ zi = 0
    /\ forge_version = <<>>
    /\ disk = <<>>
    /\ prev = NoCall

\* profile_id is any str, the empty one included; a str is a sequence of parts.
ProfileIds == {<<>>, <<"p">>, <<"q">>}

ProfileNames == {"x", "y"}

GameProfileConfig == [profile_id : ProfileIds, profile_name : ProfileNames]

\* profile_id in game_profiles
HasProfile(game_profiles, profile_id) ==
    \E i \in 1..Len(game_profiles) : game_profiles[i].profile_id = profile_id

\* game_profiles[profile.profile_id] = profile: a present key keeps its place.
SetProfile(game_profiles, profile) ==
    IF HasProfile(game_profiles, profile.profile_id)
    THEN [i \in 1..Len(game_profiles) |->
            IF game_profiles[i].profile_id = profile.profile_id
            THEN profile ELSE game_profiles[i]]
    ELSE Append(game_profiles, profile)

\* del game_profiles[profile_id]
DelProfile(game_profiles, profile_id) ==
    SelectSeq(game_profiles, LAMBDA p : p.profile_id # profile_id)

\* next(iter(game_profiles.keys()), None)
FirstKey(game_profiles) ==
    IF game_profiles = <<>> THEN None ELSE game_profiles[1].profile_id

\* bool(active_profile_id): None and the empty str are false.
Truthy(profile_id) == profile_id # None /\ profile_id # <<>>

\* CompleteLauncherConfig(): the defaults of the three fields.
CompleteLauncherConfig ==
    [game_profiles |-> <<>>, active_profile_id |-> None, last_modified |-> 0]

\* Lines 255-260; the value is the method's return value, the config the object after it.
add_profile(config, profile) ==
    [config |-> [game_profiles |-> SetProfile(config.game_profiles, profile),
                 active_profile_id |->
                    IF ~Truthy(config.active_profile_id)
                    THEN profile.profile_id ELSE config.active_profile_id,
                 last_modified |-> config.last_modified + 1],
     value |-> "None"]

remove_profile_KeepActive(config, profile_id) ==
    IF HasProfile(config.game_profiles, profile_id)
    THEN [config |-> [game_profiles |-> DelProfile(config.game_profiles, profile_id),
                      active_profile_id |-> config.active_profile_id,
                      last_modified |-> config.last_modified + 1],
          value |-> "True"]
    ELSE [config |-> config, value |-> "False"]

\* Lines 262-271.
remove_profile(config, profile_id) ==
    IF HasProfile(config.game_profiles, profile_id)
    THEN LET left == DelProfile(config.game_profiles, profile_id) IN
         [config |-> [game_profiles |-> left,
                      active_profile_id |->
                         IF config.active_profile_id = profile_id
                         THEN FirstKey(left) ELSE config.active_profile_id,
                      last_modified |-> config.last_modified + 1],
          value |-> "True"]
    ELSE [config |-> config, value |-> "False"]

\* Lines 249-253.
get_active_profile(config) ==
    IF Truthy(config.active_profile_id)
    THEN SelectSeq(config.game_profiles,
                   LAMBDA p : p.profile_id = config.active_profile_id)
    ELSE <<>>

InitConfig ==
    /\ NoInstall
    /\ self = CompleteLauncherConfig
    /\ pc = [fn |-> "CompleteLauncherConfig", profile_id |-> None]
    /\ result = "None"
    /\ log = <<>>
    /\ err = "none"

\* One call of a method: pc names the call, result is what it returned.
AddProfile ==
    \E profile \in GameProfileConfig :
        LET r == add_profile(self, profile) IN
        /\ r.config.last_modified <= MaxModified
        /\ self' = r.config
        /\ result' = r.value
        /\ pc' = [fn |-> "add_profile", profile_id |-> profile.profile_id]
        /\ UNCHANGED <<install_vars, log, err>>

RemoveProfile ==
    \E profile_id \in ProfileIds :
        LET r == remove_profile(self, profile_id) IN
        /\ r.config.last_modified <= MaxModified
        /\ self' = r.config
        /\ result' = r.value
        /\ pc' = [fn |-> "remove_profile", profile_id |-> profile_id]
        /\ UNCHANGED <<install_vars, log, err>>

NextConfig == AddProfile \/ RemoveProfile

SpecConfig == InitConfig /\ [][NextConfig]_vars

\* ------------------------------------------------------------ EventManager
\* plugins/events.py: _handlers is a dict from an event class to the list of
\* its handlers, kept here in insertion order of the classes.
MaxSubscriptions == 2

\* Event and an event class of a plugin, each with its bases (the mro).
EventClasses == {"Event", "A"}

Bases(cls) == IF cls = "Event" THEN {"Event"} ELSE {cls, "Event"}

\* issubclass(event_type, cls)
IsSubclass(event_type, cls) == cls \in Bases(event_type)

\* Three handlers, named by what they do with the event they are given.
Handlers == {"pass", "cancel", "raise"}

\* event_type in self._handlers
HasClass(table, cls) == \E i \in 1..Len(table) : table[i].cls = cls

\* self._handlers[event_type]
HandlersOf(table, cls) ==
    IF HasClass(table, cls)
    THEN (CHOOSE e \in Range(table) : e.cls = cls).handlers
    ELSE <<>>

\* How many handlers the table holds, over all its classes.
RECURSIVE Subscriptions(_)
Subscriptions(table) ==
    IF table = <<>> THEN 0
    ELSE Len(Head(table).handlers) + Subscriptions(Tail(table))

\* Lines 55-59.
subscribe(table, event_type, handler) ==
    LET t == IF HasClass(table, event_type) THEN table
             ELSE Append(table, [cls |-> event_type, handlers |-> <<>>])
    IN  [i \in 1..Len(t) |->
            IF t[i].cls = event_type /\ handler \notin Range(t[i].handlers)
            THEN [t[i] EXCEPT !.handlers = Append(@, handler)]
            ELSE t[i]]

\* Lines 68-69: the class keeps its entry, with one handler less.
unsubscribe(table, event_type, handler) ==
    [i \in 1..Len(table) |->
        IF table[i].cls = event_type
        THEN [table[i] EXCEPT !.handlers = SelectSeq(@, LAMBDA h : h # handler)]
        ELSE table[i]]

\* Lines 80-83: the handlers of every class of the table the event is an
\* instance of, class after class.
RECURSIVE Collect(_, _)
Collect(table, event_type) ==
    IF table = <<>> THEN <<>>
    ELSE (IF IsSubclass(event_type, Head(table).cls)
          THEN Head(table).handlers ELSE <<>>)
         \o Collect(Tail(table), event_type)

NoPublish ==
    [at |-> "idle", event_type |-> "Event", table |-> <<>>, handlers |-> <<>>,
     i |-> 0, cancelled |-> FALSE, republished |-> FALSE]

InitEvents ==
    /\ NoInstall
    /\ self = <<>>
    /\ pc = NoPublish
    /\ result = "None"
    /\ log = <<>>
    /\ err = "none"

\* A call made while publish is in its loop (by a handler, or by another task
\* while a handler awaits) leaves the publish as it is; one made after publish
\* has ended finds no publish any more.
Forget ==
    /\ IF pc.at = "loop"
       THEN UNCHANGED <<pc, log, err>>
       ELSE pc' = NoPublish /\ log' = <<>> /\ err' = "none"
    /\ UNCHANGED <<install_vars, result>>

Subscribe ==
    \E event_type \in EventClasses, handler \in Handlers :
        /\ Subscriptions(subscribe(self, event_type, handler)) <= MaxSubscriptions
        /\ self' = subscribe(self, event_type, handler)
        /\ Forget

Unsubscribe ==
    \E event_type \in EventClasses, handler \in Handlers :
        /\ self' = unsubscribe(self, event_type, handler)
        /\ Forget

\* Lines 77-83: publish(event) up to its loop. The event is a new one or one
\* that an earlier publish left cancelled; table is self._handlers as the call
\* found it, log the handlers this call has called.
Publish ==
    \E event_type \in EventClasses, cancelled \in BOOLEAN :
        /\ pc.at # "loop"
        /\ pc' = [at |-> "loop", event_type |-> event_type, table |-> self,
                  handlers |-> Collect(self, event_type), i |-> 1,
                  cancelled |-> cancelled, republished |-> cancelled]
        /\ log' = <<>>
        /\ err' = "none"
        /\ UNCHANGED <<install_vars, self, result>>

PublishTurn_NoBreak ==
    /\ pc.at = "loop"
    /\ IF pc.i > Len(pc.handlers)
       THEN /\ pc' = [pc EXCEPT !.at = "returned"]
            /\ UNCHANGED <<log, err>>
       ELSE LET handler == pc.handlers[pc.i] IN
            /\ log' = Append(log, handler)
            /\ IF handler = "raise"
               THEN pc' = [pc EXCEPT !.at = "raised"] /\ err' = "Exception"
               ELSE /\ pc' = [pc EXCEPT !.i = @ + 1,
                                        !.cancelled = @ \/ handler = "cancel"]
                    /\ UNCHANGED err
    /\ UNCHANGED <<install_vars, self, result>>

\* Lines 86-94: one turn of the loop, or its end. A handler that raises ends
\* the call with its exception.
PublishTurn ==
    /\ pc.at = "loop"
    /\ IF pc.i > Len(pc.handlers) \/ pc.cancelled
       THEN /\ pc' = [pc EXCEPT !.at = "returned"]
            /\ UNCHANGED <<log, err>>
       ELSE LET handler == pc.handlers[pc.i] IN
            /\ log' = Append(log, handler)
            /\ IF handler = "raise"
               THEN pc' = [pc EXCEPT !.at = "raised"] /\ err' = "Exception"
               ELSE /\ pc' = [pc EXCEPT !.i = @ + 1,
                                        !.cancelled = @ \/ handler = "cancel"]
                    /\ UNCHANGED err
    /\ UNCHANGED <<install_vars, self, result>>

NextEvents == Subscribe \/ Unsubscribe \/ Publish \/ PublishTurn

SpecEvents == InitEvents /\ [][NextEvents]_vars

\* ------------------------------------------------------------ PluginManager
\* plugins/manager.py: _plugins is a dict from a plugin's name to the plugin
\* (kept here as its keys in insertion order), _loaded_plugins a set of names.
\* What a plugin depends on and what its methods do belongs to its class, and
\* is part of the input.

\* The depth of calls at which the interpreter raises RecursionError.
RecursionLimit == 5

PluginNames == {"a", "b", "c"}

\* plugin.dependencies
Dependencies_None(name) == <<>>

Dependencies(name) == inp.dependencies[name]

\* PluginManager()
PluginManager == [plugins |-> <<>>, loaded_plugins |-> {}]

\* One thing that happened to a plugin, in the call the task made.
PluginEvent(op, plugin, task) == [op |-> op, plugin |-> plugin, task |-> task]

\* The frame of a call of one of the coroutines: its arguments and locals.
\* initialize_plugins: list is list(self._plugins.keys()), set is initialized;
\* _initialize_plugin: name is plugin_name, list is plugin.dependencies;
\* unload_plugin: name is plugin_name; shutdown: list is reversed(shutdown_order).
\* i is the turn of the loop over list, at where the call stands.
Frame(fn, name) ==
    [fn |-> fn, name |-> name, list |-> <<>>, i |-> 0, set |-> {}, at |-> "entry"]

Front(s) == SubSeq(s, 1, Len(s) - 1)

Reverse(s) == [i \in 1..Len(s) |-> s[Len(s) + 1 - i]]

Top(m) == m.stack[Len(m.stack)]

SetTop(m, f) == [m EXCEPT !.stack[Len(m.stack)] = f]

\* Lines 238-255: visit(node) and the loop that calls it, as a fold over
\* [order |-> shutdown_order, visited |-> visited].
RECURSIVE Visit(_, _, _)
RECURSIVE VisitEach(_, _, _)
Visit(node, v, plugins) ==
    IF node \in v.visited THEN v
    ELSE LET deps == IF node \in Range(plugins) THEN Dependencies(node) ELSE <<>>
             w == VisitEach(deps, [v EXCEPT !.visited = @ \cup {node}], plugins)
         IN  [w EXCEPT !.order = Append(@, node)]

VisitEach(list, v, plugins) ==
    IF list = <<>> THEN v
    ELSE VisitEach(Tail(list), Visit(Head(list), v, plugins), plugins)

ShutdownOrder(plugins) == VisitEach(plugins, [order |-> <<>>, visited |-> {}], plugins).order

\* Lines 200-203.
DependentPlugins(plugins, plugin_name) ==
    { name \in Range(plugins) : plugin_name \in Range(Dependencies(name)) }

\* A task's run of a coroutine up to its next await of a plugin's method:
\* the manager, the stack of frames, the log, the exception being raised.
Throw(m, e) ==
    [m EXCEPT !.exc = e, !.log = Append(@, PluginEvent(e, Top(m).name, m.task))]

\* return: the frame goes, and the caller's loop goes on to its next turn.
Return(m) ==
    LET s == Front(m.stack) IN
    [m EXCEPT !.stack = IF s = <<>> THEN s ELSE [s EXCEPT ![Len(s)].i = @ + 1]]

\* await self.fn(name): a new frame, unless the stack is as deep as it can get.
Enter(m, fn, name) ==
    IF Len(m.stack) >= RecursionLimit
    THEN Throw(m, "RecursionError")
    ELSE [m EXCEPT !.stack = Append(@, Frame(fn, name))]

\* await plugin.initialize() or await plugin.cleanup(): the task is suspended.
Suspend(m, op) ==
    [SetTop(m, [Top(m) EXCEPT !.at = "await"]) EXCEPT
        !.wait = TRUE, !.log = Append(@, PluginEvent(op, Top(m).name, m.task))]

\* An exception in the top frame: initialize_plugins catches it and goes on
\* to the next plugin (184-185), unload_plugin catches it and returns
\* (229-230), _initialize_plugin lets it through to its caller (169-171).
Unwind(m) ==
    LET f == Top(m) IN
    IF f.fn = "initialize_plugins"
    THEN [SetTop(m, [f EXCEPT !.i = @ + 1]) EXCEPT !.exc = ""]
    ELSE IF f.fn = "unload_plugin"
    THEN Return([m EXCEPT !.exc = ""])
    ELSE [m EXCEPT !.stack = Front(@)]

\* Lines 178-183.
StepInitializePlugins(m) ==
    LET f == Top(m) IN
    IF f.at = "entry"
    THEN SetTop(m, [f EXCEPT !.list = m.self.plugins, !.i = 1, !.at = "loop"])
    ELSE IF f.i > Len(f.list) THEN Return(m)
    ELSE Enter(m, "_initialize_plugin", f.list[f.i])

\* Lines 139-156, up to the await of plugin.initialize().
StepInitializePlugin(m) ==
    LET f == Top(m) IN
    IF f.at = "entry"
    THEN IF f.name \in m.stack[1].set THEN Return(m)
         ELSE IF f.name \notin Range(m.self.plugins) THEN Throw(m, "DependencyError")
         ELSE SetTop(m, [f EXCEPT !.list = Dependencies(f.name), !.i = 1, !.at = "loop"])
    ELSE IF f.i > Len(f.list) THEN Suspend(m, "initialize")
    ELSE IF f.list[f.i] \notin Range(m.self.plugins) THEN Throw(m, "DependencyError")
    ELSE Enter(m, "_initialize_plugin", f.list[f.i])

\* Lines 193-211, up to the await of plugin.cleanup().
StepUnloadPlugin(m) ==
    LET f == Top(m) IN
    IF f.name \notin Range(m.self.plugins) THEN Return(m)
    ELSE IF DependentPlugins(m.self.plugins, f.name) # {}
    THEN Return([m EXCEPT !.log = Append(@, PluginEvent("refused", f.name, m.task))])
    ELSE Suspend(m, "cleanup")

\* Lines 238-260.
StepShutdown(m) ==
    LET f == Top(m) IN
    IF f.at = "entry"
    THEN SetTop(m, [f EXCEPT !.list = Reverse(ShutdownOrder(m.self.plugins)),
                             !.i = 1, !.at = "loop"])
    ELSE IF f.i > Len(f.list) THEN Return(m)
    ELSE IF f.list[f.i] \in Range(m.self.plugins)
    THEN Enter(m, "unload_plugin", f.list[f.i])
    ELSE SetTop(m, [f EXCEPT !.i = @ + 1])

Step(m) ==
    LET fn == Top(m).fn IN
    IF fn = "initialize_plugins" THEN StepInitializePlugins(m)
    ELSE IF fn = "_initialize_plugin" THEN StepInitializePlugin(m)
    ELSE IF fn = "unload_plugin" THEN StepUnloadPlugin(m)
    ELSE StepShutdown(m)

\* The task runs until it awaits a plugin's method or its call has ended.
RECURSIVE Run(_)
Run(m) ==
    IF m.wait \/ m.stack = <<>> THEN m
    ELSE IF m.exc # "" THEN Run(Unwind(m))
    ELSE Run(Step(m))

\* Does this call of the plugin's initialize() raise? A plugin may raise on
\* every call, on none, or on its first call only.
InitializeRaises(name, l) ==
    \/ inp.raises[name] = "always"
    \/ /\ inp.raises[name] = "once"
       /\ \A k \in 1..Len(l) : ~(l[k].op = "initialize raised" /\ l[k].plugin = name)

\* Lines 156-171 after plugin.initialize() has ended.
AfterInitialize(m) ==
    LET name == Top(m).name IN
    IF InitializeRaises(name, m.log)
    THEN [Throw(m, "initialize raised") EXCEPT !.exc = "Exception"]
    ELSE LET n == [m EXCEPT !.stack[1].set = @ \cup {name},
                            !.self.loaded_plugins = @ \cup {name},
                            !.log = Append(@, PluginEvent("initialized", name, m.task))]
         IN  IF inp.publish_raises
             THEN [Throw(n, "publish raised") EXCEPT !.exc = "Exception"]
             ELSE Return(n)

\* Lines 211-230 after plugin.cleanup() has ended. del raises KeyError when
\* the name is no longer a key; what publish raises is caught like the rest.
AfterCleanup(m) ==
    LET name == Top(m).name IN
    IF name \in inp.cleanup_raises
    THEN [Throw(m, "cleanup raised") EXCEPT !.exc = "Exception"]
    ELSE LET n == [m EXCEPT !.self.loaded_plugins = @ \ {name},
                            !.log = Append(@, PluginEvent("cleaned", name, m.task))]
         IN  IF name \notin Range(m.self.plugins)
             THEN Throw(n, "KeyError")
             ELSE Return([n EXCEPT !.self.plugins = SelectSeq(@, LAMBDA p : p # name)])

\* The tasks: task t makes the t-th call of the input.
Tasks == 1..Len(inp.calls)

NotStarted == [at |-> "ready", stack |-> <<>>]

\* The calls are made in their order; when the input makes them one after
\* the other, a call is made once the one before it has ended.
CanStart(t) ==
    /\ t \in Tasks
    /\ pc[t].at = "ready"
    /\ \A u \in 1..(t - 1) :
          IF inp.concurrent THEN pc[u].at # "ready" ELSE pc[u].at = "done"

Machine(t, stack) ==
    [self |-> self, stack |-> stack, log |-> log, exc |-> "", wait |-> FALSE, task |-> t]

\* The state a run leaves behind.
Ran(t, m) ==
    /\ self' = m.self
    /\ log' = m.log
    /\ pc' = [pc EXCEPT ![t] = [at |-> IF m.stack = <<>> THEN "done" ELSE "suspended",
                                stack |-> m.stack]]
    /\ UNCHANGED <<install_vars, result, err>>

\* Lines 112-126: the class "broken" cannot be instantiated.
LoadPlugin(t) ==
    /\ CanStart(t)
    /\ inp.calls[t].fn = "load_plugin"
    /\ LET name == inp.calls[t].arg
           m == Machine(t, <<>>) IN
       IF name \notin PluginNames
       THEN Ran(t, [m EXCEPT !.log = Append(@, PluginEvent("PluginLoadError", name, t))])
       ELSE IF name \in Range(self.plugins)
       THEN Ran(t, m)
       ELSE Ran(t, [m EXCEPT !.self.plugins = Append(@, name)])

InitializePlugins(t) ==
    /\ CanStart(t)
    /\ inp.calls[t].fn = "initialize_plugins"
    /\ Ran(t, Run(Machine(t, <<Frame("initialize_plugins", "")>>)))

UnloadPlugin(t) ==
    /\ CanStart(t)
    /\ inp.calls[t].fn = "unload_plugin"
    /\ Ran(t, Run(Machine(t, <<Frame("unload_plugin", inp.calls[t].arg)>>)))

Shutdown(t) ==
    /\ CanStart(t)
    /\ inp.calls[t].fn = "shutdown"
    /\ Ran(t, Run(Machine(t, <<Frame("shutdown", "")>>)))

\* plugin.initialize() of a suspended task ends, and the task runs on.
InitializeEnds(t) ==
    /\ t \in Tasks
    /\ pc[t].at = "suspended"
    /\ pc[t].stack[Len(pc[t].stack)].fn = "_initialize_plugin"
    /\ Ran(t, Run(AfterInitialize(Machine(t, pc[t].stack))))

\* plugin.cleanup() of a suspended task ends, and the task runs on.
CleanupEnds(t) ==
    /\ t \in Tasks
    /\ pc[t].at = "suspended"
    /\ pc[t].stack[Len(pc[t].stack)].fn = "unload_plugin"
    /\ Ran(t, Run(AfterCleanup(Machine(t, pc[t].stack))))

NextPlugins ==
    \E t \in Tasks :
        \/ LoadPlugin(t)
        \/ InitializePlugins(t)
        \/ UnloadPlugin(t)
        \/ Shutdown(t)
        \/ InitializeEnds(t)
        \/ CleanupEnds(t)

\* The inputs: the plugin classes (what each depends on, which of their
\* methods raise), whether the handlers of the manager's events raise, and
\* the calls made on the manager.
PluginInput(dependencies, raises, cleanup_raises, publish_raises, calls, concurrent) ==
    [dependencies |-> dependencies, raises |-> raises,
     cleanup_raises |-> cleanup_raises, publish_raises |-> publish_raises,
     calls |-> calls, concurrent |-> concurrent]

CallOf(fn, arg) == [fn |-> fn, arg |-> arg]

Loads(order) == [i \in 1..Len(order) |-> CallOf("load_plugin", order[i])]

InitializeCall == CallOf("initialize_plugins", "")

ShutdownCall == CallOf("shutdown", "")

\* Chains, a plugin with two dependencies, cycles of two and of three, a
\* plugin that depends on itself.
Graphs ==
    { [a |-> da, b |-> db, c |-> dc] :
        da \in {<<>>, <<"a">>, <<"b">>, <<"b", "c">>},
        db \in {<<>>, <<"a">>, <<"c">>},
        dc \in {<<>>, <<"a">>} }

\* Two or three of the classes, loaded in some order; with two, the third
\* plugin is one that is not registered.
Orders ==
    { o \in [{1, 2} -> PluginNames] \cup [{1, 2, 3} -> PluginNames] :
        \A i, j \in DOMAIN o : i # j => o[i] # o[j] }

NeverRaises == [name \in PluginNames |-> "never"]

InitializeCalls ==
    { PluginInput(g, r, {}, pr, Loads(o) \o <<InitializeCall>>, FALSE) :
        g \in Graphs, r \in [PluginNames -> {"never", "once", "always"}],
        pr \in BOOLEAN, o \in Orders }

ShutdownCalls ==
    { PluginInput(g, NeverRaises, cr, pr, Loads(o) \o init \o <<ShutdownCall>>, FALSE) :
        g \in Graphs, cr \in {{}, {"a"}, {"b"}}, pr \in BOOLEAN, o \in Orders,
        init \in {<<>>, <<InitializeCall>>} }

UnloadCalls ==
    { PluginInput(g, NeverRaises, {}, FALSE,
                  Loads(o) \o <<InitializeCall, CallOf("unload_plugin", name)>> \o tail,
                  FALSE) :
        g \in Graphs, o \in Orders, name \in PluginNames,
        tail \in {<<>>, <<InitializeCall>>} }

ReloadCalls ==
    { PluginInput(g, NeverRaises, {}, FALSE,
                  <<CallOf("load_plugin", "broken"), CallOf("load_plugin", "a"),
                    CallOf("load_plugin", "a"), InitializeCall, InitializeCall>>,
                  FALSE) :
        g \in Graphs }

PluginCalls == InitializeCalls \cup ShutdownCalls \cup UnloadCalls \cup ReloadCalls

InitPlugins ==
    /\ inp \in PluginCalls
    /\ self = PluginManager
    /\ pc = [t \in Tasks |-> NotStarted]
    /\ file_list = <<>>
    /\ count = 0
    /\ zi = 0
    /\ forge_version = <<>>
    /\ disk = <<>>
    /\ prev = NoCall
    /\ result = "None"
    /\ log = <<>>
    /\ err = "none"

SpecPlugins == InitPlugins /\ [][NextPlugins]_vars

\* Calls on one manager by tasks that run at the same time: any three of
\* these calls, on plugins that may depend on each other.
TaskCalls ==
    { PluginInput([a |-> da, b |-> db, c |-> <<>>], NeverRaises, {}, FALSE, calls, TRUE) :
        da \in {<<>>, <<"b">>}, db \in {<<>>, <<"a">>},
        calls \in [{1, 2, 3} -> { CallOf("load_plugin", "a"), CallOf("load_plugin", "b"),
                                  InitializeCall, ShutdownCall,
                                  CallOf("unload_plugin", "a"),
                                  CallOf("unload_plugin", "b") }] }

InitTasks ==
    /\ inp \in TaskCalls
    /\ self = PluginManager
    /\ pc = [t \in Tasks |-> NotStarted]
    /\ file_list = <<>>
    /\ count = 0
    /\ zi = 0
    /\ forge_version = <<>>
    /\ disk = <<>>
    /\ prev = NoCall
    /\ result = "None"
    /\ log = <<>>
    /\ err = "none"

SpecTasks == InitTasks /\ [][NextPlugins]_vars

\* ================================================================ claims
\* What the claims read off the log.
EventsOf(ops) == SelectSeq(log, LAMBDA e : e.op \in ops)

Positions(ops) == { j \in 1..Len(log) : log[j].op \in ops }

DownloadIO == {"fetch", "dl_mkdir", "dl_write"}
OverrideIO == {"ov_mkdir", "ov_write"}
Installers == {"install_minecraft_version", "install_forge_version",
               "install_fabric", "install_quilt"}

\* The rule of the file filter, entry by entry.
ToInstall(file) ==
    \/ ~file.hasEnv
    \/ file.client = "required"
    \/ file.client = "optional" /\ file.path \in inp.optionalFiles

\* C1: when the file filter returns, its output holds an entry of the manifest
\* if and only if the entry has no env block, or env.client is "required", or
\* env.client is "optional" and its path is in optionalFiles.
C1_FilterRule ==
    pc = "filtered" =>
        /\ \A i \in 1..Len(inp.files) :
              inp.files[i] \in Range(file_list) <=> ToInstall(inp.files[i])
        /\ Range(file_list) \subseteq Range(inp.files)

C1_Witness ==
    /\ pc = "filtered"
    /\ \E i, j \in 1..Len(inp.files) :
          /\ inp.files[i].client = "optional" /\ inp.files[i] \in Range(file_list)
          /\ inp.files[j].client \in {"optional", "unsupported"}
          /\ inp.files[j] \notin Range(file_list)

Guards == {"dl_guard", "ov_guard"}

\* The path install resolves for the entry a guard or I/O event is about.
ResolvedFor(e) ==
    IF e.op \in DownloadIO \cup {"dl_guard"}
    THEN AbsPath(Join(ModpackDirectory, inp.files[e.n].path))
    ELSE AbsPath(Join(ModpackDirectory, Tail(Namelist[e.n].name)))

SamePhase(e, f) ==
    (e.op \in DownloadIO \cup {"dl_guard"}) <=> (f.op \in DownloadIO \cup {"dl_guard"})

\* p is dir or below it.
Under(dir, p) == Len(p) >= Len(dir) /\ SubSeq(p, 1, Len(dir)) = dir

\* C2: every fetch, directory creation and file write for a manifest file or an
\* override entry comes after the guard has passed the resolved destination of
\* that entry; when the guard rejects, install raises and nothing is fetched,
\* created or written for that entry.
C2_GuardBeforeIO ==
    \A j \in 1..Len(log) :
        /\ log[j].op \in DownloadIO \cup OverrideIO =>
              \E i \in 1..(j - 1) :
                  /\ log[i].op \in Guards /\ SamePhase(log[i], log[j])
                  /\ log[i].n = log[j].n
                  /\ log[i].data = 1
                  /\ log[i].path = ResolvedFor(log[j])
                  /\ ~GuardRejects(ModpackDirectory, log[i].path)
        /\ (log[j].op \in Guards /\ GuardRejects(ModpackDirectory, ResolvedFor(log[j]))) =>
              /\ j = Len(log)
              /\ pc = "raised"
              /\ err = "FileOutsideMinecraftDirectory"
              /\ \A i \in 1..Len(log) :
                    ~(log[i].op \in DownloadIO \cup OverrideIO
                      /\ SamePhase(log[i], log[j]) /\ log[i].n = log[j].n)

C2_Witness ==
    /\ err = "FileOutsideMinecraftDirectory"
    /\ log[Len(log)].op = "dl_guard"
    /\ Positions({"fetch"}) # {}

\* C3: whether install returns or raises, every directory the download and
\* override steps created and every file they wrote is in the directory the
\* paths are resolved against (the modpack directory when supplied, otherwise
\* the Minecraft directory).
C3_NothingOutside ==
    /\ \A j \in Positions({"dl_mkdir", "ov_mkdir", "dl_write", "ov_write"}) :
          Under(RealPath(ModpackDirectory), log[j].path)
    /\ \A p \in DOMAIN disk : Under(RealPath(ModpackDirectory), p)

C3_Witness ==
    /\ err = "FileOutsideMinecraftDirectory"
    /\ log[Len(log)].op = "ov_guard"
    /\ ".." \in Range(Namelist[log[Len(log)].n].name)
    /\ inp.modpack_directory = PackDir
    /\ Positions({"ov_write"}) # {}

C5_ChecksumAborts ==
    \A j \in Positions({"dl_write"}) :
        Sha1(log[j].data) # DeclaredSha1(inp.files[log[j].n]) =>
            /\ j = Len(log)
            /\ pc = "raised"
            /\ err = "InvalidChecksum"

C5_Witness ==
    /\ err = "InvalidChecksum"
    /\ Len(file_list) > count + 1
    /\ inp.zip # <<>>
    /\ ~inp.skipDependenciesInstall

Writes == {"dl_write", "ov_write"}

\* The write at position j is the last one the call made to its path.
LastWrite(j) == \A k \in (j + 1)..Len(log) :
                    ~(log[k].op \in Writes /\ log[k].path = log[j].path)

HoldsDeclared(j) ==
    /\ log[j].path \in DOMAIN disk
    /\ Sha1(disk[log[j].path]) = DeclaredSha1(inp.files[log[j].n])

\* C6 as stated: after an install that returned, every downloaded manifest
\* file is at its destination with the SHA-1 the manifest declares.
C6_AsStated ==
    pc = "returned" => \A j \in Positions({"dl_write"}) : HoldsDeclared(j)

\* C6: after an install that returned, every downloaded manifest file whose
\* destination no later manifest file and no override was written to is at
\* its destination with the SHA-1 the manifest declares.
C6_LastWriterRoundTrip ==
    pc = "returned" =>
        \A j \in Positions({"dl_write"}) : LastWrite(j) => HoldsDeclared(j)

C6_Witness ==
    /\ pc = "returned"
    /\ \E j, k \in Positions({"dl_write"}) :
          /\ j < k
          /\ log[j].path = log[k].path
          /\ LastWrite(k)
          /\ HoldsDeclared(k)
          /\ ~HoldsDeclared(j)

AfterDownloads == {"overrides", "forge", "fabric", "quilt", "returned"}
AfterOverrides == {"forge", "fabric", "quilt", "returned"}

ExpectedFiles == SelectSeq(inp.files, ToInstall)

\* C7: the files fetched are the manifest entries the filter rule takes, each
\* once and in manifest order, each from the first URL of its downloads list
\* and each written before the next is fetched; the download step fetches and
\* writes nothing for an entry the rule leaves out.
C7_FetchOrder ==
    LET fetched == EventsOf({"fetch"}) IN
    /\ Len(fetched) <= Len(ExpectedFiles)
    /\ \A i \in 1..Len(fetched) :
          /\ fetched[i].n = ExpectedFiles[i].n
          /\ fetched[i].data = 0
    /\ pc \in AfterDownloads => Len(fetched) = Len(ExpectedFiles)
    /\ \A j \in Positions(DownloadIO) : ToInstall(inp.files[log[j].n])
    /\ \A j \in Positions({"dl_write"}) :
          \E i \in 1..(j - 1) :
              /\ log[i].op = "fetch" /\ log[i].n = log[j].n
              /\ \A k \in (i + 1)..(j - 1) : log[k].op # "fetch"
    /\ \A i, j \in Positions({"fetch"}) :
          i < j => \E k \in (i + 1)..(j - 1) : log[k].op = "dl_write" /\ log[k].n = log[i].n

C7_Witness ==
    /\ pc = "overrides"
    /\ Len(inp.files) = 2
    /\ inp.files[1].client = "optional"
    /\ ~ToInstall(inp.files[1])
    /\ Positions({"dl_write"}) # {}
    /\ \A j \in Positions({"dl_write"}) : log[j].n = 2

\* The rule of the override step, entry by entry.
Qualifies(entry) ==
    /\ Len(entry.name) >= 2
    /\ entry.name[1] \in {"overrides", "client-overrides"}
    /\ entry.data # 0

ExpectedOverrides == SelectSeq(Namelist, Qualifies)

OverrideTarget(entry) == RealPath(FullPath(ModpackDirectory, Tail(entry.name)))

\* C8: the files the override step writes are the archive entries under
\* "overrides/" or "client-overrides/" of nonzero size, in archive order: each
\* with its own bytes, at its name without the prefix under the override
\* target directory, after the directory above it was created; once the step
\* is over all of them are written and each such path holds the bytes of the
\* last entry written to it.
C8_OverridesExact ==
    LET written == EventsOf({"ov_write"}) IN
    /\ Len(written) <= Len(ExpectedOverrides)
    /\ \A i \in 1..Len(written) :
          /\ written[i].path = OverrideTarget(ExpectedOverrides[i])
          /\ written[i].data = ExpectedOverrides[i].data
          /\ Under(RealPath(ModpackDirectory), written[i].path)
    /\ \A j \in Positions({"ov_write"}) :
          /\ j > 1
          /\ log[j - 1].op = "ov_mkdir"
          /\ log[j - 1].path = DirName(log[j].path)
    /\ pc \in AfterOverrides =>
          /\ Len(written) = Len(ExpectedOverrides)
          /\ \A i \in 1..Len(written) :
                (\A k \in (i + 1)..Len(written) : written[k].path # written[i].path)
                    => disk[written[i].path] = written[i].data

C8_Witness ==
    /\ pc \in AfterOverrides
    /\ Len(EventsOf({"ov_write"})) = 2
    /\ inp.modpack_directory = PackDir
    /\ \E i \in 1..Len(inp.zip) : inp.zip[i].name[1] = "client-overrides"

\* C9: with skipDependenciesInstall set no installer is invoked and no HEAD
\* request is made, and a call that returns has fetched every file the filter
\* rule takes and written every qualifying override.
C9_SkipDependencies ==
    inp.skipDependenciesInstall =>
        /\ Positions(Installers \cup {"head"}) = {}
        /\ pc \notin {"forge", "fabric", "quilt"}
        /\ pc = "returned" =>
              /\ Len(EventsOf({"dl_write"})) = Len(ExpectedFiles)
              /\ Len(EventsOf({"ov_write"})) = Len(ExpectedOverrides)

C9_Witness ==
    /\ inp.skipDependenciesInstall
    /\ pc = "returned"
    /\ inp.dependencies = Loaders
    /\ Positions({"dl_write"}) # {}
    /\ Positions({"ov_write"}) # {}

LoaderOps == {"head", "install_forge_version", "install_fabric", "install_quilt"}

\* C10: without skipDependenciesInstall the dependency step first invokes the
\* Minecraft installer, once, with dependencies.minecraft; every Forge probe
\* and loader installer comes after it, Forge before Fabric before Quilt, and
\* a loader's installer is invoked only if the manifest declares its key.
C10_DispatchOrder ==
    /\ \A j \in Positions(LoaderOps) :
          \E i \in 1..(j - 1) :
              /\ log[i].op = "install_minecraft_version"
              /\ log[i].path = <<inp.minecraft>>
    /\ (~inp.skipDependenciesInstall /\ pc \in AfterOverrides) =>
          Cardinality(Positions({"install_minecraft_version"})) = 1
    /\ \A i, j \in Positions(LoaderOps) :
          i < j =>
              /\ log[i].op = "install_fabric" => log[j].op = "install_quilt"
              /\ log[i].op # "install_quilt"
    /\ Positions({"head", "install_forge_version"}) # {} => "forge" \in inp.dependencies
    /\ Positions({"install_fabric"}) # {} => "fabric-loader" \in inp.dependencies
    /\ Positions({"install_quilt"}) # {} => "quilt-loader" \in inp.dependencies

C10_Witness ==
    /\ pc = "returned"
    /\ inp.minecraft = "1.12.2"
    /\ Positions({"install_forge_version"}) # {}
    /\ Positions({"install_fabric"}) # {}
    /\ Positions({"install_quilt"}) # {}

\* The installer a loader key of the manifest is installed with.
LoaderInstaller(key) ==
    CASE key = "forge"         -> "install_forge_version"
      [] key = "fabric-loader" -> "install_fabric"
      [] key = "quilt-loader"  -> "install_quilt"

LoaderInstallers == { LoaderInstaller(key) : key \in Loaders }

\* C11 as stated: at most one of the Forge, Fabric and Quilt installers is
\* invoked in any install call.
C11_AsStated == Cardinality(Positions(LoaderInstallers)) <= 1

\* C11: each of the Forge, Fabric and Quilt installers is invoked at most
\* once and only for a key the manifest declares; a call that returns without
\* skipDependenciesInstall has invoked the installer of every declared loader,
\* so at most one is invoked when the manifest declares at most one loader.
C11_OnePerDeclaredLoader ==
    /\ \A key \in Loaders :
          Cardinality(Positions({LoaderInstaller(key)}))
              <= (IF key \in inp.dependencies THEN 1 ELSE 0)
    /\ Cardinality(inp.dependencies) <= 1 => Cardinality(Positions(LoaderInstallers)) <= 1
    /\ (pc = "returned" /\ ~inp.skipDependenciesInstall) =>
          \A key \in inp.dependencies : Positions({LoaderInstaller(key)}) # {}

C11_Witness ==
    /\ pc = "returned"
    /\ inp.dependencies = {"forge", "fabric-loader"}
    /\ Cardinality(Positions(LoaderInstallers)) = 2

\* C12: with forge declared the candidates <mc>-<forge> and
\* <mc>-<forge>-<mc> are probed with HEAD in that order, the second only when
\* the first did not answer 200; the Forge installer gets the first candidate
\* that answered 200; when neither did, the call fails with VersionNotFound
\* and no Forge, Fabric or Quilt installer is invoked.
C12_ForgeProbe ==
    LET heads == EventsOf({"head"})
        forges == EventsOf({"install_forge_version"})
        first == <<inp.minecraft, "-", DepVersion("forge")>>
        second == <<inp.minecraft, "-", DepVersion("forge"), "-", inp.minecraft>>
    IN  /\ Len(heads) <= 2
        /\ Len(heads) >= 1 => heads[1].path = first /\ heads[1].data = inp.head[1]
        /\ Len(heads) = 2 => /\ heads[2].path = second
                             /\ heads[2].data = inp.head[2]
                             /\ heads[1].data # 200
        /\ (Len(heads) = 1) => heads[1].data = 200
        /\ ("forge" \in inp.dependencies /\ ~inp.skipDependenciesInstall
                /\ pc \in {"fabric", "quilt", "returned"}) => Len(heads) >= 1
        /\ forges # <<>> =>
              /\ Len(forges) = 1
              /\ heads # <<>>
              /\ heads[Len(heads)].data = 200
              /\ forges[1].path = heads[Len(heads)].path
              /\ \A i \in Positions({"head"}), j \in Positions({"install_forge_version"}) : i < j
        /\ (heads # <<>> /\ heads[Len(heads)].data = 200) => Len(forges) = 1
        /\ (Len(heads) = 2 /\ heads[2].data # 200) =>
              /\ pc = "raised"
              /\ err = "VersionNotFound"
              /\ Positions(LoaderInstallers) = {}
        /\ err = "VersionNotFound" => Len(heads) = 2 /\ heads[2].data # 200

C12_Witness ==
    /\ pc = "returned"
    /\ inp.head = <<404, 200>>
    /\ Len(EventsOf({"head"})) = 2
    /\ \E j \in Positions({"install_forge_version"}) :
          log[j].path = <<"1.12.2", "-", "47.2.0", "-", "1.12.2">>

\* C13: get_mrpack_launch_version returns <mc>-forge-<forge> if the manifest
\* declares forge, otherwise fabric-loader-<loader>-<mc> if it declares
\* fabric-loader, otherwise quilt-loader-<loader>-<mc> if it declares
\* quilt-loader, otherwise the Minecraft version; {minecraft: 1.20.1,
\* fabric-loader: 0.15.0} gives fabric-loader-0.15.0-1.20.1.
C13_LaunchVersion ==
    pc = "version" =>
        /\ "forge" \in inp.dependencies => result = <<inp.minecraft, "-forge-", "47.2.0">>
        /\ ("forge" \notin inp.dependencies /\ "fabric-loader" \in inp.dependencies) =>
              result = <<"fabric-loader-", "0.15.0", "-", inp.minecraft>>
        /\ (inp.dependencies = {"quilt-loader"}) =>
              result = <<"quilt-loader-", "0.20.0", "-", inp.minecraft>>
        /\ inp.dependencies = {} => result = <<inp.minecraft>>
        /\ (inp.minecraft = "1.20.1" /\ inp.dependencies = {"fabric-loader"}) =>
              result = <<"fabric-loader-", "0.15.0", "-", "1.20.1">>

C13_Witness ==
    /\ pc = "version"
    /\ inp.dependencies = {"forge", "fabric-loader"}
    /\ result = <<"1.12.2", "-forge-", "47.2.0">>

\* Whether the j-th event of the log is a step that raised.
Failed(j) ==
    LET e == log[j] IN
    \/ e.op \in Guards /\ e.data = 0
    \/ e.op = "fetch" /\ inp.fault.kind = "neterr" /\ inp.fault.n = e.n
    \/ e.op = "dl_write" /\ Sha1(e.data) # Sha1(e.n)
    \/ e.op = "head" /\ e.n = 2 /\ e.data # 200
    \/ e.op \in Installers /\ inp.fault.kind = e.op

\* The exception a failed step raises.
Raised(e) ==
    CASE e.op \in Guards     -> "FileOutsideMinecraftDirectory"
      [] e.op = "fetch"      -> "DownloadFailed"
      [] e.op = "dl_write"   -> "InvalidChecksum"
      [] e.op = "head"       -> "VersionNotFound"
      [] e.op \in Installers -> "InstallerError"

\* C14: install returns normally only after every filtered file has been
\* downloaded, every qualifying override written and, unless
\* skipDependenciesInstall, the Minecraft installer and the installer of
\* every declared loader have completed; an error of the path guard, a
\* download, the Forge probe or a delegated installer ends the call with that
\* error, and nothing runs after the step that raised it.
C14_AllOrRaise ==
    /\ pc = "returned" =>
          /\ err = "none"
          /\ \A j \in 1..Len(log) : ~Failed(j)
          /\ Len(EventsOf({"dl_write"})) = Len(ExpectedFiles)
          /\ \A i \in 1..Len(ExpectedFiles) :
                EventsOf({"dl_write"})[i].n = ExpectedFiles[i].n
          /\ Len(EventsOf({"ov_write"})) = Len(ExpectedOverrides)
          /\ ~inp.skipDependenciesInstall =>
                /\ Positions({"install_minecraft_version"}) # {}
                /\ \A key \in inp.dependencies : Positions({LoaderInstaller(key)}) # {}
    /\ \A j \in 1..Len(log) :
          Failed(j) => /\ j = Len(log)
                       /\ pc = "raised"
                       /\ err = Raised(log[j])
    /\ err # "none" <=> pc = "raised"
    /\ pc = "raised" => ~ENABLED Next

C14_Witness ==
    /\ pc = "raised"
    /\ err = "InstallerError"
    /\ inp.dependencies = Loaders
    /\ log[Len(log)].op = "install_fabric"
    /\ Positions({"dl_write"}) # {}
    /\ Positions({"ov_write"}) # {}

\* C15: in the download phase setMax is called exactly once, with the number
\* of filtered files and before the first download; the k-th setProgress
\* follows the download of the k-th filtered file and reports k, so the
\* progress rises by one per file, never exceeds the max and equals the max
\* when the download phase ends.
C15_Progress ==
    LET maxes == EventsOf({"setMax"})
        progs == EventsOf({"setProgress"})
    IN  /\ Len(maxes) <= 1
        /\ pc \in {"download"} \cup AfterDownloads => Len(maxes) = 1
        /\ \A j \in Positions({"setMax"}) :
              /\ log[j].n = Len(ExpectedFiles)
              /\ \A i \in Positions(DownloadIO \cup {"dl_guard", "setProgress"}) : j < i
        /\ \A k \in 1..Len(progs) :
              /\ progs[k].n = k
              /\ maxes # <<>> /\ progs[k].n <= maxes[1].n
        /\ \A j \in Positions({"setProgress"}) :
              /\ j > 1
              /\ log[j - 1].op = "dl_write"
              /\ log[j - 1].n = ExpectedFiles[log[j].n].n
        /\ \A j \in Positions({"dl_write"}) :
              (j < Len(log) \/ pc # "raised") =>
                  /\ j < Len(log)
                  /\ log[j + 1].op = "setProgress"
        /\ Len(progs) = count
        /\ pc \in AfterDownloads =>
              /\ progs # <<>> => progs[Len(progs)].n = maxes[1].n
              /\ Len(progs) = maxes[1].n

C15_Witness ==
    /\ pc \in AfterDownloads
    /\ Len(EventsOf({"setProgress"})) = 2
    /\ EventsOf({"setMax"})[1].n = 2
    /\ Len(inp.files) = 2

\* C16: with any subset of the setStatus, setProgress and setMax slots, or
\* with no callback, only slots that are present are called, and the
\* downloads, file writes and installer invocations, the files on disk and
\* the outcome of the call are those of the same call with all three slots.
C16_SlotsOptional ==
    /\ \A j \in 1..Len(log) : log[j].op \in AllSlots => log[j].op \in Callback
    /\ (prev # NoCall /\ pc \in {"returned", "raised"}) => Outcome = prev

C16_Witness ==
    /\ prev # NoCall
    /\ pc = "returned"
    /\ Len(prev.log) < Len(log)
    /\ Positions({"dl_write"}) # {}
    /\ Positions({"ov_write"}) # {}
    /\ Positions({"install_fabric"}) # {}

\* C17: a second install call with the same inputs, on the directory the
\* first call left and with the same bytes served, creates no file the first
\* call did not create and ends with every file holding what it held after
\* the first call, and with the same outcome.
C17_Idempotent ==
    prev # NoCall =>
        /\ DOMAIN disk = DOMAIN prev.disk
        /\ pc \in {"returned", "raised"} =>
              /\ disk = prev.disk
              /\ pc = prev.pc
              /\ err = prev.err

C17_Witness ==
    /\ prev # NoCall
    /\ pc = "returned"
    /\ \E i \in Positions({"dl_write"}), j \in Positions({"ov_write"}) :
          /\ log[i].path = log[j].path
          /\ log[i].data # log[j].data
          /\ disk[log[j].path] = 32

\* The exceptions of a missing or unparsable index entry.
MalformedArchive == {"KeyError", "JSONDecodeError"}

\* C18: whichever of install_mrpack, get_mrpack_information and
\* get_mrpack_launch_version is called, it fails with a file-not-found error
\* when the archive does not exist and with a malformed-archive error when
\* modrinth.index.json is missing or is not valid JSON, having called no
\* callback slot, fetched nothing, written nothing and returned nothing.
C18_ArchiveErrors ==
    [][inp.archive # "ok" =>
          /\ pc' = "raised"
          /\ inp.archive = "missing" => err' = "FileNotFoundError"
          /\ inp.archive \in {"noindex", "badjson"} => err' \in MalformedArchive
          /\ log' = <<>>
          /\ disk' = <<>>
          /\ result' = None]_vars

C18_Witness ==
    /\ pc = "raised"
    /\ inp.archive = "noindex"
    /\ err = "KeyError"
    /\ inp.callback = AllSlots
    /\ inp.files # <<>>
    /\ inp.zip # <<>>
    /\ log = <<>>

\* Whether the filter takes the i-th manifest file when the caller selects
\* the optional paths in selection.
Taken(i, selection) ==
    \E k \in 1..Len(FilterMrpackFiles(inp.files, selection).list) :
        FilterMrpackFiles(inp.files, selection).list[k] = inp.files[i]

\* Whether the caller's selection decides if the i-th file is taken.
DependsOnSelection(i) ==
    \E s1, s2 \in SUBSET { inp.files[k].path : k \in 1..Len(inp.files) } :
        Taken(i, s1) /\ ~Taken(i, s2)

\* C19: get_mrpack_information returns the name, the summary ("" when the
\* manifest has none), the versionId, the formatVersion and the Minecraft
\* version of the manifest, and as optionalFiles the paths, in manifest
\* order, of exactly the files whose env.client is "optional", which are
\* exactly the files the filter takes or leaves depending on the selection.
C19_Information ==
    pc = "info" =>
        /\ result.name = inp.index.name
        /\ result.summary = (IF inp.index.summary = NoKey THEN "" ELSE inp.index.summary)
        /\ result.versionId = inp.index.versionId
        /\ result.formatVersion = inp.index.formatVersion
        /\ result.minecraftVersion = inp.minecraft
        /\ LET optional == SelectSeq(inp.files,
                                     LAMBDA f : f.hasEnv /\ f.client = "optional")
           IN  /\ Len(result.optionalFiles) = Len(optional)
               /\ \A k \in 1..Len(optional) : result.optionalFiles[k] = optional[k].path
        /\ \A i \in 1..Len(inp.files) :
              (inp.files[i].hasEnv /\ inp.files[i].client = "optional")
                  <=> DependsOnSelection(i)

C19_Witness ==
    /\ pc = "info"
    /\ result.summary = ""
    /\ Len(inp.files) = 2
    /\ inp.files[1].client = "required"
    /\ result.optionalFiles = << <<"d", "b">> >>

\* The manifest files with an env block that has no client value.
ClientAbsent == { i \in 1..Len(inp.files) : inp.files[i].hasEnv /\ inp.files[i].client = NoKey }

\* C20 as stated: a manifest file whose env block has no client value is
\* treated as required: neither install_mrpack nor get_mrpack_information
\* fails on it, and the filtered list of install_mrpack holds it.
C20_AsStated ==
    ClientAbsent # {} =>
        /\ err # "KeyError"
        /\ pc \in {"download"} \cup AfterDownloads =>
              \A i \in ClientAbsent : \E k \in 1..Len(file_list) : file_list[k] = inp.files[i]

\* C21 as stated: every downloaded manifest file is written at its path
\* resolved against the Minecraft directory, whether or not the caller
\* supplies a modpack directory.
C21_AsStated ==
    \A j \in Positions({"dl_write"}) :
        log[j].path = RealPath(AbsPath(Join(AbsPath(McDir), inp.files[log[j].n].path)))

\* C21: every downloaded manifest file is written at its path resolved
\* against the modpack directory when the caller supplies one, and against
\* the Minecraft directory otherwise.
C21_DownloadRoot ==
    \A j \in Positions({"dl_write"}) :
        LET root == IF inp.modpack_directory = None THEN McDir ELSE inp.modpack_directory
        IN  log[j].path = RealPath(AbsPath(Join(AbsPath(root), inp.files[log[j].n].path)))

C21_Witness ==
    /\ pc = "returned"
    /\ inp.modpack_directory = PackDir
    /\ \E j \in Positions({"dl_write"}) :
          /\ log[j].path = RealPath(AbsPath(PackDir)) \o <<"a">>
          /\ log[j].path # RealPath(AbsPath(McDir)) \o <<"a">>
          /\ inp.files[log[j].n].path = <<"d", "..", "a">>

\* The loader kind and the version strings a launch version is made of.
Named(v) ==
    IF Len(v) = 3 /\ v[2] = "-forge-"
    THEN [kind |-> "forge", minecraft |-> v[1], loader |-> v[3]]
    ELSE IF Len(v) = 4 /\ v[1] = "fabric-loader-"
    THEN [kind |-> "fabric-loader", minecraft |-> v[4], loader |-> v[2]]
    ELSE IF Len(v) = 4 /\ v[1] = "quilt-loader-"
    THEN [kind |-> "quilt-loader", minecraft |-> v[4], loader |-> v[2]]
    ELSE [kind |-> "minecraft", minecraft |-> v[1], loader |-> ""]

\* Whether the call invoked the installer of the loader v names, with the
\* version strings v is made of; the Forge installer is handed the selected
\* candidate, which begins with the two strings.
Mirrors(v) ==
    LET named == Named(v) IN
    /\ \E j \in Positions({"install_minecraft_version"}) : log[j].path = <<named.minecraft>>
    /\ named.kind = "forge" =>
          \E j \in Positions({"install_forge_version"}) :
              /\ log[j].path = forge_version
              /\ SubSeq(log[j].path, 1, 3) = <<named.minecraft, "-", named.loader>>
    /\ named.kind \in {"fabric-loader", "quilt-loader"} =>
          \E j \in Positions({LoaderInstaller(named.kind)}) :
              log[j].path = <<named.minecraft, named.loader>>

\* C22 as stated: the launch version mirrors what a successful install of
\* the same archive installed.
C22_AsStated == pc = "returned" => Mirrors(GetMrpackLaunchVersion)

\* C22: the launch version mirrors what a successful install of the same
\* archive without skipDependenciesInstall installed: the Minecraft installer
\* was handed its Minecraft version and the installer of the loader it names
\* was invoked with its Minecraft and loader version strings (for Forge, with
\* the selected candidate, which begins with them).
C22_LaunchMirrorsInstall ==
    (pc = "returned" /\ ~inp.skipDependenciesInstall) => Mirrors(GetMrpackLaunchVersion)

C22_Witness ==
    /\ pc = "returned"
    /\ ~inp.skipDependenciesInstall
    /\ Named(GetMrpackLaunchVersion).kind = "forge"
    /\ inp.dependencies = Loaders
    /\ inp.head = <<404, 200>>
    /\ Len(forge_version) = 5

\* The positions of the log at which the status text is reported.
StatusAt(text) == { j \in Positions({"setStatus"}) : log[j].path = <<text>> }

\* C23: the phases run in a fixed order: the status "Download mrpack files"
\* and the size of the filtered list come before the first download, every
\* download is over before the status "Extract overrides", which comes before
\* the first override write, and every override is written before the first
\* dependency installer or Forge probe.
C23_PhaseOrder ==
    LET downloads == Positions(DownloadIO \cup {"dl_guard"})
        overrides == Positions(OverrideIO \cup {"ov_guard"})
        installs  == Positions(Installers \cup {"head"})
    IN  /\ log # <<>> => StatusAt("Download mrpack files") = {1}
        /\ \A i \in downloads : \E m \in Positions({"setMax"}) : 1 < m /\ m < i
        /\ Cardinality(StatusAt("Extract overrides")) <= 1
        /\ pc \in AfterDownloads => Cardinality(StatusAt("Extract overrides")) = 1
        /\ \A x \in StatusAt("Extract overrides") :
              /\ \A i \in downloads : i < x
              /\ \A j \in overrides : x < j
              /\ Len(EventsOf({"dl_write"})) = Len(ExpectedFiles)
        /\ overrides # {} => StatusAt("Extract overrides") # {}
        /\ \A k \in installs :
              /\ \A i \in downloads \cup overrides \cup StatusAt("Extract overrides") : i < k
              /\ StatusAt("Extract overrides") # {}
              /\ Len(EventsOf({"ov_write"})) = Len(ExpectedOverrides)

C23_Witness ==
    /\ pc = "returned"
    /\ Len(EventsOf({"dl_write"})) = 1
    /\ Len(EventsOf({"ov_write"})) = 1
    /\ Len(EventsOf(Installers)) = 4
    /\ Len(EventsOf({"head"})) = 2

\* Two qualifying archive entries, one under each prefix, that strip to the
\* same relative path, the second being the last entry written to that file.
SamePathPair(i, j) ==
    /\ i < j
    /\ Qualifies(Namelist[i])
    /\ Qualifies(Namelist[j])
    /\ {Namelist[i].name[1], Namelist[j].name[1]} = {"overrides", "client-overrides"}
    /\ Tail(Namelist[i].name) = Tail(Namelist[j].name)
    /\ \A k \in (j + 1)..Len(Namelist) :
          Qualifies(Namelist[k]) => OverrideTarget(Namelist[k]) # OverrideTarget(Namelist[j])

\* C24: when an overrides/ entry and a client-overrides/ entry, in either
\* order, strip to the same relative path, the file holds the bytes of the
\* one that comes last in the archive once the override step is over.
C24_LastEntryWins ==
    pc \in AfterOverrides =>
        \A i, j \in 1..Len(Namelist) :
            SamePathPair(i, j) =>
                /\ OverrideTarget(Namelist[j]) \in DOMAIN disk
                /\ disk[OverrideTarget(Namelist[j])] = Namelist[j].data
                /\ disk[OverrideTarget(Namelist[j])] # Namelist[i].data

C24_Witness ==
    /\ pc \in AfterOverrides
    /\ \E i, j \in 1..Len(Namelist) :
          /\ SamePathPair(i, j)
          /\ Namelist[i].name[1] = "client-overrides"
          /\ disk[OverrideTarget(Namelist[j])] = Namelist[j].data
    /\ inp.files # <<>>

\* ----------------------------------------------------------------------- C30
ActiveIsAKey ==
    /\ self.active_profile_id = None <=> self.game_profiles = <<>>
    /\ self.game_profiles # <<>> =>
           HasProfile(self.game_profiles, self.active_profile_id)

RemoveAbsent ==
    (/\ pc'.fn = "remove_profile"
     /\ ~HasProfile(self.game_profiles, pc'.profile_id))
    => (result' = "False" /\ self' = self)

\* C30: after any sequence of add_profile and remove_profile calls on a config
\* that starts with no profiles, active_profile_id is None exactly when
\* game_profiles is empty and is otherwise one of its keys; and a
\* remove_profile call for an id that is not a key returns False and leaves
\* the config, last_modified included, as it was.
C30_ActiveProfile == []ActiveIsAKey /\ [][RemoveAbsent]_vars

\* The active profile was removed while another one was left, and that one
\* became the active profile.
C30_Witness ==
    /\ pc.fn = "remove_profile"
    /\ result = "True"
    /\ self.game_profiles # <<>>
    /\ self.active_profile_id # pc.profile_id
    /\ self.active_profile_id = self.game_profiles[1].profile_id
    /\ self.last_modified = 3

\* ----------------------------------------------------------------------- C29
\* The classes the published event is an instance of to which the handler was
\* subscribed when publish was called.
SubscribedTo(handler) ==
    { cls \in Bases(pc.event_type) :
        handler \in Range(HandlersOf(pc.table, cls)) }

Called(handler) == { k \in 1..Len(log) : log[k] = handler }

\* C29: publish calls, one after another, handlers that were subscribed to
\* the event's class or to one of its base classes when it was called, each at
\* most once per such class; no handler is called after one that cancelled the
\* event, none at all for an event that was cancelled before; and a publish
\* that returns with the event not cancelled has called every one of them.
C29_PublishCancel ==
    pc.at # "idle" =>
        /\ \A k \in 1..Len(log) :
              /\ SubscribedTo(log[k]) # {}
              /\ \A j \in 1..(k - 1) : log[j] # "cancel"
        /\ \A handler \in Handlers :
              Cardinality(Called(handler)) <= Cardinality(SubscribedTo(handler))
        /\ pc.republished => log = <<>>
        /\ (pc.at = "returned" /\ ~pc.cancelled) =>
              \A handler \in Handlers :
                  Cardinality(Called(handler)) = Cardinality(SubscribedTo(handler))

\* A handler of the base class cancelled the event, and the handler of the
\* event's own class, which was next, was not called.
C29_Witness ==
    /\ pc.at = "returned"
    /\ pc.event_type = "A"
    /\ log = <<"cancel">>
    /\ HandlersOf(pc.table, "Event") = <<"cancel">>
    /\ HandlersOf(pc.table, "A") = <<"pass">>

\* ----------------------------------------------------------------------- C25
\* The k-th event is the call of a plugin's initialize().
InitializeCalled(k) == log[k].op = "initialize"

\* Before the k-th event and in the same pass, this happened to the plugin.
Earlier(k, op, plugin) ==
    \E j \in 1..(k - 1) : log[j] = PluginEvent(op, plugin, log[k].task)

\* Every call of initialize() follows, in its pass, a call of initialize()
\* of each declared dependency that returned.
AfterItsDependencies ==
    \A k \in 1..Len(log) :
        InitializeCalled(k) =>
            \A dep_name \in Range(inp.dependencies[log[k].plugin]) :
                Earlier(k, "initialized", dep_name)

\* A name is in loaded_plugins only when an initialize() of the plugin returned.
LoadedByInitialize ==
    \A name \in self.loaded_plugins :
        \E k \in 1..Len(log) : log[k].op = "initialized" /\ log[k].plugin = name

ShutdownReturned(t) == inp.calls[t].fn = "shutdown" /\ pc[t].at = "done"

\* The events of the task in which a cleanup() was called, or raised.
Cleanups(t, op) == { k \in 1..Len(log) : log[k].op = op /\ log[k].task = t }

\* C26: shutdown calls cleanup() of each plugin before cleanup() of any
\* plugin it depends on, and when it has returned with no cleanup() having
\* raised, no plugin is registered or in loaded_plugins any more. The code
\* does not do this for plugins that depend on each other or on themselves.
C26_AsStated ==
    \A t \in Tasks :
        /\ \A j, k \in Cleanups(t, "cleanup") :
              (/\ inp.calls[t].fn = "shutdown"
               /\ log[j].plugin # log[k].plugin
               /\ log[k].plugin \in Range(inp.dependencies[log[j].plugin]))
              => j < k
        /\ (ShutdownReturned(t) /\ Cleanups(t, "cleanup raised") = {})
              => (self.plugins = <<>> /\ self.loaded_plugins = {})

\* ----------------------------------------------------------------------- C27
\* How deep the calls of the task are nested. When no plugin is entered
\* while its own call is still on the stack, that is at most one call of
\* _initialize_plugin for each registered plugin, below initialize_plugins.
Nesting(t) == Len(pc[t].stack)

\* C27: initialize_plugins ends, for every set of registered plugins, without
\* its calls of _initialize_plugin nesting deeper than there are registered
\* plugins, so that the interpreter never has to end the recursion with a
\* RecursionError. The code does not do this for plugins that depend on each
\* other or on themselves.
C27_AsStated ==
    /\ \A t \in Tasks : Nesting(t) <= Len(self.plugins) + 1
    /\ \A k \in 1..Len(log) : log[k].op # "RecursionError"

\* ----------------------------------------------------------------------- C28
\* C28: whatever load_plugin, initialize_plugins, unload_plugin and shutdown
\* calls tasks make on one manager, and however they interleave at their
\* awaits, every name in loaded_plugins is a registered plugin whose declared
\* dependencies are all in loaded_plugins. The code keeps this for calls made
\* one after the other, and not for calls that interleave.
C28_AsStated ==
    \A name \in self.loaded_plugins :
        /\ name \in Range(self.plugins)
        /\ Range(inp.dependencies[name]) \subseteq self.loaded_plugins

====
